---- MODULE Spec2Model ----
(***************************************************************************)
(* claude-notifier: Discord notifications for Claude Code hook events.     *)
(*                                                                         *)
(* The module models                                                       *)
(*   - parseTranscript (src/src/lib/transcript-parser.ts): the two-pass    *)
(*     reconstruction of one Episode from a JSONL transcript;              *)
(*   - the quota collector getUsageStats (tmux-usage-scraper.js): one      *)
(*     tmux command per step, each of which may fail;                      *)
(*   - the notification hooks (task-completed, input-requested): stdin     *)
(*     payload, transcript, quota, message, delivery, exit.                *)
(*                                                                         *)
(* Optional values (JavaScript undefined) are sequences of length 0 or 1:  *)
(* <<>> is absent, <<v>> is present with value v.                          *)
(***************************************************************************)
EXTENDS Integers, Sequences, FiniteSets, TLC

\* ------------------------------------------------------------------ bounds

\* Longest transcript (lines) explored under SpecParse.
MaxLines == 3

\* Timestamps of transcript entries are the milliseconds 1..MaxTime after the
\* epoch (valid ISO dates, for which Date.getTime() is a positive number).
MaxTime == 2

\* ---------------------------------------------------------- optional values

None == <<>>

Some(v) == <<v>>

IsSome(o) == Len(o) = 1

Get(o) == o[1]

Range(s) == {s[i] : i \in 1..Len(s)}

\* -------------------------------------------------------- transcript lines

Times == 1..MaxTime

OptTimes == {None} \cup {Some(t) : t \in Times}

\* Text bodies of user messages; "" is an empty text body.
Prompts == {"", "p"}

\* A content part of an assistant message: a tool invocation or a text.
ToolPart(n) == [type |-> "tool_use", name |-> n, text |-> ""]

TextPart(t) == [type |-> "text", name |-> "", text |-> t]

\* The part sequences assistant (and tool-result user) entries carry.
PartSeqs == {<<ToolPart("Read")>>, <<TextPart("x"), ToolPart("Edit")>>}

TextContent(s) == [isText |-> TRUE, text |-> s, parts |-> <<>>]

PartsContent(ps) == [isText |-> FALSE, text |-> "", parts |-> ps]

\* A line of the transcript file. kind "blank" is an empty or whitespace-only
\* line, kind "malformed" a line JSON.parse rejects, kind "entry" a parsed
\* TranscriptEntry; hasMessage is FALSE for entries without a message field.
BlankLine == [kind |-> "blank", type |-> "", hasMessage |-> FALSE, role |-> "", content |-> TextContent(""), timestamp |-> None]

MalformedLine == [kind |-> "malformed", type |-> "", hasMessage |-> FALSE, role |-> "", content |-> TextContent(""), timestamp |-> None]

UserText(p, ts) == [kind |-> "entry", type |-> "user", hasMessage |-> TRUE, role |-> "user", content |-> TextContent(p), timestamp |-> ts]

\* A user entry whose content is a part sequence (a tool result).
UserParts(ts) == [kind |-> "entry", type |-> "user", hasMessage |-> TRUE, role |-> "user", content |-> PartsContent(<<[type |-> "tool_result", name |-> "", text |-> ""]>>), timestamp |-> ts]

Assistant(ps, ts) == [kind |-> "entry", type |-> "assistant", hasMessage |-> TRUE, role |-> "assistant", content |-> PartsContent(ps), timestamp |-> ts]

\* An entry of another kind (summary, system, ...), without a message.
OtherEntry(ts) == [kind |-> "entry", type |-> "system", hasMessage |-> FALSE, role |-> "", content |-> TextContent(""), timestamp |-> ts]

TranscriptEntry == {UserText(p, ts) : p \in Prompts, ts \in OptTimes}
                       \cup {UserParts(ts) : ts \in OptTimes}
                       \cup {Assistant(ps, ts) : ps \in PartSeqs, ts \in OptTimes}
                       \cup {OtherEntry(ts) : ts \in OptTimes}

Lines == {BlankLine, MalformedLine} \cup TranscriptEntry

\* ------------------------------------------------------- parseTranscript

\* JavaScript truthiness of an optional number: undefined, 0 (and NaN) are falsy.
Truthy(o) == IsSome(o) /\ Get(o) # 0

\* entry.type === 'user' && entry.message?.role === 'user'
IsUserMessage(e) == e.type = "user" /\ e.hasMessage /\ e.role = "user"

\* The Episode of the catch block: { tools: [] }, every other key undefined.
EmptyEpisode == [prompt |-> None, response |-> <<>>, tools |-> <<>>, duration |-> None, error |-> None]

\* State of the first pass before the first line.
FirstInit == [threw |-> FALSE, lastUserPrompt |-> "", lastUserTimestamp |-> None, allEntries |-> <<>>]

\* FirstStep with an unparseable line skipped instead of thrown on.
FirstStep_skipMalformed(st, line) ==
    IF st.threw \/ line.kind = "blank" \/ line.kind = "malformed" THEN st
    ELSE LET pushed == [st EXCEPT !.allEntries = Append(@, line)]
         IN IF IsUserMessage(line) /\ line.content.isText
            THEN [pushed EXCEPT !.lastUserPrompt = line.content.text,
                                !.lastUserTimestamp = IF IsSome(line.timestamp) THEN line.timestamp ELSE @]
            ELSE pushed

\* FirstStep with the timestamp taken from every user message, whatever its
\* content (the timestamp test moved out of the string test).
FirstStep_anyContentTime(st, line) ==
    IF st.threw \/ line.kind = "blank" THEN st
    ELSE IF line.kind = "malformed" THEN [st EXCEPT !.threw = TRUE]
    ELSE LET pushed == [st EXCEPT !.allEntries = Append(@, line)]
             timed == IF IsUserMessage(line) /\ IsSome(line.timestamp)
                      THEN [pushed EXCEPT !.lastUserTimestamp = line.timestamp]
                      ELSE pushed
         IN IF IsUserMessage(line) /\ line.content.isText
            THEN [timed EXCEPT !.lastUserPrompt = line.content.text]
            ELSE timed

\* One iteration of the first loop: blank lines are skipped, JSON.parse of a
\* malformed line throws, a user message with a string content sets the prompt
\* and, only if it carries a timestamp, the timestamp.
FirstStep(st, line) ==
    IF st.threw \/ line.kind = "blank" THEN st
    ELSE IF line.kind = "malformed" THEN [st EXCEPT !.threw = TRUE]
    ELSE LET pushed == [st EXCEPT !.allEntries = Append(@, line)]
         IN IF IsUserMessage(line) /\ line.content.isText
            THEN [pushed EXCEPT !.lastUserPrompt = line.content.text,
                                !.lastUserTimestamp = IF IsSome(line.timestamp) THEN line.timestamp ELSE @]
            ELSE pushed

RECURSIVE FirstPass(_, _)
FirstPass(st, lines) ==
    IF lines = <<>> THEN st ELSE FirstPass(FirstStep(st, Head(lines)), Tail(lines))

\* The names of the tool_use parts of a part sequence, in order.
RECURSIVE ToolNames(_)
ToolNames(ps) ==
    IF ps = <<>> THEN <<>>
    ELSE (IF Head(ps).type = "tool_use" /\ Head(ps).name # "" THEN <<Head(ps).name>> ELSE <<>>)
             \o ToolNames(Tail(ps))

\* The texts of the text parts of a part sequence, in order.
RECURSIVE PartTexts(_)
PartTexts(ps) ==
    IF ps = <<>> THEN <<>>
    ELSE (IF Head(ps).type = "text" /\ Head(ps).text # "" THEN <<Head(ps).text>> ELSE <<>>)
             \o PartTexts(Tail(ps))

SecondInit == [collectingTools |-> FALSE, tools |-> <<>>, responseTexts |-> <<>>, endTime |-> None]

\* The condition that switches collecting on: a user message whose timestamp
\* equals lastUserTimestamp (the content kind is not looked at).
StartsCollecting(e, lastUserTimestamp) ==
    /\ IsUserMessage(e)
    /\ IsSome(e.timestamp)
    /\ Truthy(lastUserTimestamp)
    /\ Get(e.timestamp) = Get(lastUserTimestamp)

\* One iteration of the second loop.
SecondStep(st, e, lastUserTimestamp) ==
    IF StartsCollecting(e, lastUserTimestamp) THEN [st EXCEPT !.collectingTools = TRUE]
    ELSE IF ~st.collectingTools THEN st
    ELSE LET collected == IF e.type = "assistant" /\ e.hasMessage /\ ~e.content.isText
                          THEN [st EXCEPT !.tools = @ \o ToolNames(e.content.parts),
                                          !.responseTexts = @ \o PartTexts(e.content.parts)]
                          ELSE st
         IN IF IsSome(e.timestamp) THEN [collected EXCEPT !.endTime = e.timestamp] ELSE collected

RECURSIVE SecondPass(_, _, _)
SecondPass(st, entries, lastUserTimestamp) ==
    IF entries = <<>> THEN st
    ELSE SecondPass(SecondStep(st, Head(entries), lastUserTimestamp), Tail(entries), lastUserTimestamp)

\* const duration = lastUserTimestamp && endTime ? endTime - lastUserTimestamp : undefined
Duration(lastUserTimestamp, endTime) ==
    IF Truthy(lastUserTimestamp) /\ Truthy(endTime)
    THEN Some(Get(endTime) - Get(lastUserTimestamp))
    ELSE None

\* The try block of parseTranscript: readFileSync throws for a file that is
\* missing or unreadable; otherwise the two passes run. The response is kept
\* as the list of its text parts (their join by "\n"); texts are not blank, so
\* the trimmed join is empty exactly when the list is.
TryParse(file, lines) ==
    IF file # "ok" THEN [threw |-> TRUE, ep |-> EmptyEpisode]
    ELSE LET first == FirstPass(FirstInit, lines)
             second == SecondPass(SecondInit, first.allEntries, first.lastUserTimestamp)
         IN IF first.threw THEN [threw |-> TRUE, ep |-> EmptyEpisode]
            ELSE [threw |-> FALSE,
                  ep |-> [prompt |-> IF first.lastUserPrompt = "" THEN None ELSE Some(first.lastUserPrompt),
                          response |-> second.responseTexts,
                          tools |-> second.tools,
                          duration |-> Duration(first.lastUserTimestamp, second.endTime),
                          error |-> None]]

\* parseTranscript without its catch block: the exception reaches the caller.
parseTranscript_noCatch(file, lines) ==
    LET r == TryParse(file, lines)
    IN [raised |-> r.threw, failed |-> FALSE, ep |-> r.ep]

\* parseTranscript with a catch block that reports the failure in the
\* Episode's error field.
parseTranscript_errorOnCatch(file, lines) ==
    LET r == TryParse(file, lines)
    IN IF r.threw THEN [raised |-> FALSE, failed |-> TRUE, ep |-> [EmptyEpisode EXCEPT !.error = Some("failed")]]
       ELSE [raised |-> FALSE, failed |-> FALSE, ep |-> r.ep]

\* parseTranscript: the catch block turns every exception of the try block
\* into the Episode { tools: [] }. raised: an exception reaches the caller;
\* failed: the catch block ran (the failure was logged).
parseTranscript(file, lines) ==
    LET r == TryParse(file, lines)
    IN IF r.threw THEN [raised |-> FALSE, failed |-> TRUE, ep |-> EmptyEpisode]
       ELSE [raised |-> FALSE, failed |-> FALSE, ep |-> r.ep]

\* ------------------------------------------------------ parseUsageOutput

\* A line of the captured screen, by what the parser tests on it:
\* session: the line includes "Current session"; week: it includes
\* "Current week"; percent: the number of its first /(\d+)%\s+used/ match;
\* reset: the trimmed text of its /\s*(Resets\s+.+)/ match (never empty).
ScreenLine(s, w, p, r) == [session |-> s, week |-> w, percent |-> p, reset |-> r]

PlainLine == ScreenLine(FALSE, FALSE, None, None)

SessionLine == ScreenLine(TRUE, FALSE, None, None)

WeekLine == ScreenLine(FALSE, TRUE, None, None)

PercentLine(n) == ScreenLine(FALSE, FALSE, Some(n), None)

ResetLine(t) == ScreenLine(FALSE, FALSE, None, Some(t))

\* String.prototype.trim on the text captured by /\s*(Resets\s+.+)/: the
\* capture starts at "Resets" and runs to the end of the line, so only
\* whitespace at the end of the line is there to remove.
Trim(t) == IF t = "Resets 4pm  " THEN "Resets 4pm" ELSE t

ScanInit == [percentUsed |-> 0, resetTime |-> "", inCurrentSession |-> FALSE, stopped |-> FALSE]

\* ScanStep without the break after the reset line: the scan goes on to the
\* "Current week" line.
ScanStep_noBreak(st, line) ==
    IF st.stopped THEN st
    ELSE IF line.session THEN [st EXCEPT !.inCurrentSession = TRUE]
    ELSE IF ~st.inCurrentSession THEN st
    ELSE LET pct == IF IsSome(line.percent) THEN [st EXCEPT !.percentUsed = Get(line.percent)] ELSE st
             rst == IF IsSome(line.reset) THEN [pct EXCEPT !.resetTime = Trim(Get(line.reset))] ELSE pct
         IN IF line.week THEN [rst EXCEPT !.stopped = TRUE] ELSE rst

\* One iteration of the scan loop of parseUsageOutput.
ScanStep(st, line) ==
    IF st.stopped THEN st
    ELSE IF line.session THEN [st EXCEPT !.inCurrentSession = TRUE]
    ELSE IF ~st.inCurrentSession THEN st
    ELSE LET pct == IF IsSome(line.percent) THEN [st EXCEPT !.percentUsed = Get(line.percent)] ELSE st
         IN IF IsSome(line.reset) THEN [pct EXCEPT !.resetTime = Trim(Get(line.reset)), !.stopped = TRUE]
            ELSE IF line.week THEN [pct EXCEPT !.stopped = TRUE]
            ELSE pct

RECURSIVE Scan(_, _)
Scan(st, lines) ==
    IF lines = <<>> THEN st ELSE Scan(ScanStep(st, Head(lines)), Tail(lines))

\* parseUsageOutput returning data only when both values were found.
parseUsageOutput_needsBoth(output) ==
    LET st == Scan(ScanInit, output)
    IN IF st.percentUsed > 0 /\ st.resetTime # ""
       THEN Some([percentUsed |-> st.percentUsed, resetTime |-> st.resetTime])
       ELSE None

\* parseUsageOutput: null (None) unless a percentage above 0 or a reset text
\* was found.
parseUsageOutput(output) ==
    LET st == Scan(ScanInit, output)
    IN IF st.percentUsed > 0 \/ st.resetTime # ""
       THEN Some([percentUsed |-> st.percentUsed, resetTime |-> st.resetTime])
       ELSE None

\* getUsageStats' mapping of the parsed data to UsageStats.
ToUsageStats(data) ==
    IF data = None THEN None
    ELSE Some([tokenPercentageUsed |-> Get(data).percentUsed, resetTime |-> Get(data).resetTime])

\* Lines of the usage dialog and of whatever else the pane may show: a line
\* without a match, the two section headers, "N% used" lines (0, an ordinary
\* value and a value above 100; the pattern accepts any digits), a "Resets"
\* line, a line with a percentage and a "Resets" text that is followed by
\* blanks up to the end of the line, a "Current week" line
\* that carries a percentage or a "Resets" text, and a "Current session" line
\* that carries a percentage.
ScreenLines ==
    { PlainLine, SessionLine, WeekLine,
      PercentLine(0), PercentLine(23), PercentLine(150),
      ResetLine("Resets 2:59pm (America/New_York)"),
      ScreenLine(FALSE, FALSE, Some(7), Some("Resets 4pm  ")),
      ScreenLine(FALSE, TRUE, Some(10), None),
      ScreenLine(FALSE, TRUE, None, Some("Resets Nov 8")),
      ScreenLine(TRUE, FALSE, Some(40), None) }

\* Longest captured screen (lines) explored under SpecScreen.
MaxScreenLines == 4

\* output.split('\n') of every stdout of at most MaxScreenLines lines.
Screens == UNION {[1..n -> ScreenLines] : n \in 0..MaxScreenLines}

\* The screens tmux capture-pane returns in the behaviours explored: the usage
\* dialog, a screen that has not rendered it, the dialog without its section
\* marker, and a section with 0% and no reset line.
CapturedScreens ==
    { <<SessionLine, PercentLine(23), ResetLine("Resets 2:59pm (America/New_York)"), WeekLine, PercentLine(10)>>,
      <<PlainLine>>,
      <<PercentLine(23), ResetLine("Resets 2:59pm (America/New_York)")>>,
      <<SessionLine, PercentLine(0), WeekLine>> }

\* ------------------------------------------ the tmux commands of one call

\* ensureSession's commands after a failed session check, and
\* refreshAndCapture's commands; each is awaited, then its delay is slept.
CreateSeq == <<"new-session", "send-keys /usage", "send-keys Escape", "send-keys Enter">>

RefreshSeq == <<"send-keys Escape Escape C-u", "send-keys /usage", "send-keys Escape", "send-keys Enter", "capture-pane">>

\* SleepsAfter with the delays left out: the next command is issued as soon as
\* the previous one has completed.
SleepsAfter_noDelay(cmd) == FALSE

\* Whether a sleep follows the command (capture-pane is followed by the parse).
SleepsAfter(cmd) == cmd # "capture-pane" /\ cmd # "has-session"

\* The command at a position of getUsageStats.
CommandAt(at, idx) ==
    IF at = "has" THEN "has-session"
    ELSE IF at = "create" THEN CreateSeq[idx]
    ELSE RefreshSeq[idx]

\* NextPosition with ensureSession creating the session without regard to the
\* outcome of the session check.
NextPosition_alwaysCreate(at, idx) ==
    IF at = "has" THEN [at |-> "create", idx |-> 1]
    ELSE IF at = "create"
         THEN IF idx < Len(CreateSeq) THEN [at |-> "create", idx |-> idx + 1] ELSE [at |-> "refresh", idx |-> 1]
    ELSE IF idx < Len(RefreshSeq) THEN [at |-> "refresh", idx |-> idx + 1] ELSE [at |-> "parse", idx |-> 0]

\* Where control goes after the command at a position has succeeded (and its
\* delay has elapsed): the next command of the sequence, the refresh sequence
\* after ensureSession, or the parse after the capture.
NextPosition(at, idx) ==
    IF at = "has" THEN [at |-> "refresh", idx |-> 1]
    ELSE IF at = "create"
         THEN IF idx < Len(CreateSeq) THEN [at |-> "create", idx |-> idx + 1] ELSE [at |-> "refresh", idx |-> 1]
    ELSE IF idx < Len(RefreshSeq) THEN [at |-> "refresh", idx |-> idx + 1] ELSE [at |-> "parse", idx |-> 0]

\* FailPosition without the try/catch of refreshAndCapture: a rejected
\* command of the creation or refresh sequence leaves getUsageStats as an
\* exception.
FailPosition_noCatch(at, idx) ==
    IF at = "has" THEN [at |-> "create", idx |-> 1] ELSE [at |-> "raised", idx |-> 0]

\* Where control goes when the awaited command rejects: ensureSession's catch
\* takes a failed session check to the creation; everything else is caught by
\* refreshAndCapture, which returns null ("raised" would be a rejection that
\* no catch block encloses).
FailPosition(at, idx) ==
    IF at = "has" THEN [at |-> "create", idx |-> 1] ELSE [at |-> "returned", idx |-> 0]

\* Whether tmux can complete the command successfully in the current state of
\* the session: has-session succeeds exactly when the session exists,
\* new-session needs the name to be free, every other command needs the
\* session.
CanSucceed(cmd, sess) ==
    IF cmd = "has-session" THEN sess
    ELSE IF cmd = "new-session" THEN ~sess
    ELSE sess

\* Whether the command can reject: has-session rejects exactly when the session
\* is absent; any other command can (tmux missing, session gone, exec error).
CanFail(cmd, sess) ==
    IF cmd = "has-session" THEN ~sess ELSE TRUE

\* ------------------------------------------------------- the hook payload

\* Pieces in which the caller may write a non-empty payload to stdin.
MaxChunks == 2

\* The three hook programs: task-completed reading a transcript, task-completed
\* with the data in the payload, and input-requested.
Variants == {"transcript", "direct", "input"}

\* A prompt of more than 100 characters, and its first 100 characters
\* followed by "...".
LongPrompt == "<prompt of 101 characters>"

LongPromptPreview == "<first 100 characters>..."

\* The text a caller writes to stdin. kind "empty": nothing; "garbage": text
\* JSON.parse rejects; "null": the JSON text null; "object": a JSON object
\* with the fields given (absent fields are None).
Payload(k, tp, p, tl, d, st, er) ==
    [kind |-> k, transcript_path |-> tp, prompt |-> p, tools |-> tl, duration |-> d, status |-> st, error |-> er]

EmptyData == Payload("empty", None, None, None, None, None, None)

GarbageData == Payload("garbage", None, None, None, None, None, None)

NullData == Payload("null", None, None, None, None, None, None)

\* The object {}.
EmptyObject == Payload("object", None, None, None, None, None, None)

\* The payload of the manual test of the task-completed hook, and a payload
\* that reports an error; neither names a transcript.
TestTaskPayload == Payload("object", None, Some("Test task"), Some(<<"Read", "Edit", "Read">>), Some(2500), Some("success"), None)

ErrorPayload == Payload("object", None, None, None, None, None, Some("boom"))

\* The payloads written to a hook of the variant.
PayloadsFor(v) ==
    {EmptyData, GarbageData, NullData}
        \cup (IF v = "transcript"
              THEN {Payload("object", tp, None, None, None, None, None) : tp \in {None, Some("/t.jsonl")}}
                       \cup {TestTaskPayload, ErrorPayload}
              ELSE IF v = "input"
              THEN {Payload("object", None, p, None, None, None, None) : p \in {None, Some("Test task"), Some(LongPrompt)}}
              ELSE {Payload("object", None, p, tl, d, st, er) :
                        p \in {None, Some("Test task")},
                        tl \in {None, Some(<<"Read", "Edit", "Read">>)},
                        d \in {None, Some(0), Some(2500)},
                        st \in {None, Some("success"), Some("failed")},
                        er \in {None, Some(""), Some("boom")}})

\* The value of readStdin's data variable after `received` of the `n` pieces
\* of the payload have arrived: a strict prefix of a JSON text is not JSON.
DataAfter(payload, n, received) ==
    IF payload.kind = "empty" \/ received = 0 THEN EmptyData
    ELSE IF received < n THEN GarbageData
    ELSE payload

\* data ? JSON.parse(data) : {} with unparseable text read as {}.
ParseInput_lenient(data) ==
    IF data.kind = "empty" \/ data.kind = "garbage" THEN [threw |-> FALSE, value |-> EmptyObject]
    ELSE [threw |-> FALSE, value |-> data]

\* const hookData = data ? JSON.parse(data) : {}
ParseInput(data) ==
    IF data.kind = "empty" THEN [threw |-> FALSE, value |-> EmptyObject]
    ELSE IF data.kind = "garbage" THEN [threw |-> TRUE, value |-> EmptyObject]
    ELSE [threw |-> FALSE, value |-> data]

\* The transcripts a transcript_path refers to in the hook behaviours explored.
HookTranscripts ==
    { [file |-> "missing", log |-> <<>>],
      [file |-> "ok", log |-> <<>>],
      [file |-> "ok", log |-> <<UserText("p", Some(1)), MalformedLine>>],
      [file |-> "ok", log |-> <<UserText("p", Some(1)), Assistant(<<ToolPart("Read")>>, Some(1))>>],
      [file |-> "ok", log |-> <<UserText("p", Some(1)), Assistant(<<TextPart("x"), ToolPart("Edit")>>, Some(2)), OtherEntry(Some(2))>>] }

\* ----------------------------------------------------------- the message

\* The value of a message field: a text, the tool counts of formatTools, the
\* text parts of the response, a number of tenths of a second rendered as
\* seconds with one decimal, or the usage lines.
TextValue(s) == [text |-> s, counts |-> <<>>, lines |-> <<>>, num |-> 0]

CountsValue(cs) == [text |-> "", counts |-> cs, lines |-> <<>>, num |-> 0]

\* The response preview (responses here are at most 200 characters long).
ResponseValue(texts) == [text |-> "", counts |-> <<>>, lines |-> texts, num |-> 0]

SecondsValue(tenths) == [text |-> "s", counts |-> <<>>, lines |-> <<>>, num |-> tenths]

UsageValue(stats) == [text |-> stats.resetTime, counts |-> <<>>, lines |-> <<>>, num |-> stats.tokenPercentageUsed]

Field(n, v) == [name |-> n, value |-> v]

\* prompt.substring(0, 100) + (prompt.length > 100 ? '...' : '')
PromptPreview(prompt) ==
    IF prompt = None \/ prompt = Some("") THEN TextValue("No prompt provided")
    ELSE IF Get(prompt) = LongPrompt THEN TextValue(LongPromptPreview)
    ELSE TextValue(Get(prompt))

\* CountTools without the aggregation: one entry per element of the list.
RECURSIVE CountTools_noMerge(_, _)
CountTools_noMerge(acc, tools) ==
    IF tools = <<>> THEN acc
    ELSE CountTools_noMerge(Append(acc, [tool |-> Head(tools), count |-> 1]), Tail(tools))

\* The counts object of formatTools: one entry per tool name, in the order of
\* first occurrence (the insertion order of the object's keys; tool names are
\* identifiers such as Read or mcp__server__tool, which are neither integer
\* keys nor names of Object.prototype members).
RECURSIVE CountTools(_, _)
CountTools(acc, tools) ==
    IF tools = <<>> THEN acc
    ELSE LET t == Head(tools)
             seen == {i \in 1..Len(acc) : acc[i].tool = t}
         IN IF seen = {}
            THEN CountTools(Append(acc, [tool |-> t, count |-> 1]), Tail(tools))
            ELSE CountTools([i \in 1..Len(acc) |-> IF i \in seen THEN [acc[i] EXCEPT !.count = @ + 1] ELSE acc[i]], Tail(tools))

\* formatTools(tools), and the || 'None' of the field.
formatTools(tools) ==
    IF tools = <<>> THEN TextValue("None") ELSE CountsValue(CountTools(<<>>, tools))

\* FormatDuration rendering whole seconds (toFixed(0)).
FormatDuration_wholeSeconds(duration) ==
    IF duration = None \/ Get(duration) = 0 THEN TextValue("Unknown")
    ELSE SecondsValue(((Get(duration) + 500) \div 1000) * 10)

\* FormatDuration testing for an absent duration only: 0 ms is "0.0s".
FormatDuration_zeroAsSeconds(duration) ==
    IF duration = None THEN TextValue("Unknown")
    ELSE IF Get(duration) >= 0 THEN SecondsValue((Get(duration) + 50) \div 100)
    ELSE SecondsValue(0 - ((50 - Get(duration)) \div 100))

\* duration ? `${(duration / 1000).toFixed(1)}s` : 'Unknown'; the number of
\* tenths is the duration rounded to 100 ms.
FormatDuration(duration) ==
    IF duration = None \/ Get(duration) = 0 THEN TextValue("Unknown")
    ELSE IF Get(duration) > 0 THEN SecondsValue((Get(duration) + 50) \div 100)
    ELSE SecondsValue(0 - ((50 - Get(duration)) \div 100))

\* UsageFields with a usage field also for a missing snapshot.
UsageFields_always(stats) ==
    IF stats = None THEN <<Field("Usage Stats", TextValue("unavailable"))>>
    ELSE <<Field("Usage Stats", UsageValue(Get(stats)))>>

\* if (usageStats) fields.push({ name: 'Usage Stats', ... })
UsageFields(stats) ==
    IF stats = None THEN <<>> ELSE <<Field("Usage Stats", UsageValue(Get(stats)))>>

\* StatusFields with the error text left out of the error field.
StatusFields_noErrorText(isSuccess, error) ==
    IF isSuccess THEN <<Field("Status", TextValue("Success"))>>
    ELSE <<Field("Error", TextValue("Unknown error"))>>

\* The status field of a success, the error field otherwise ('Unknown error'
\* for an empty error text).
StatusFields(isSuccess, error) ==
    IF isSuccess THEN <<Field("Status", TextValue("Success"))>>
    ELSE <<Field("Error", TextValue(IF error = None \/ error = Some("") THEN "Unknown error" ELSE Get(error)))>>

IsTruthyText(o) == o # None /\ o # Some("")

\* The message of the transcript-reading task-completed hook.
TranscriptMessage(ep, stats) ==
    LET isSuccess == ~IsTruthyText(ep.error)
    IN [title |-> IF isSuccess THEN "Task Completed" ELSE "Task Failed",
        color |-> IF isSuccess THEN "0x00FF00" ELSE "0xFF0000",
        fields |-> <<Field("Prompt", PromptPreview(ep.prompt)),
                     Field("Response", IF ep.response = <<>> THEN TextValue("No response") ELSE ResponseValue(ep.response)),
                     Field("Tools", formatTools(ep.tools)),
                     Field("Duration", FormatDuration(ep.duration))>>
                   \o StatusFields(isSuccess, ep.error) \o UsageFields(stats)]

\* DirectMessage deciding on the error alone, whatever the status.
DirectMessage_errorOnly(hookData, stats) ==
    LET isSuccess == ~IsTruthyText(hookData.error)
    IN [title |-> IF isSuccess THEN "Task Completed" ELSE "Task Failed",
        color |-> IF isSuccess THEN "0x00FF00" ELSE "0xFF0000",
        fields |-> <<Field("Prompt", PromptPreview(hookData.prompt)),
                     Field("Tools", formatTools(IF hookData.tools = None THEN <<>> ELSE Get(hookData.tools))),
                     Field("Duration", FormatDuration(hookData.duration))>>
                   \o StatusFields(isSuccess, hookData.error) \o UsageFields(stats)]

\* The message of the task-completed hook that takes its data from the payload.
DirectMessage(hookData, stats) ==
    LET isSuccess == hookData.status = Some("success") \/ ~IsTruthyText(hookData.error)
    IN [title |-> IF isSuccess THEN "Task Completed" ELSE "Task Failed",
        color |-> IF isSuccess THEN "0x00FF00" ELSE "0xFF0000",
        fields |-> <<Field("Prompt", PromptPreview(hookData.prompt)),
                     Field("Tools", formatTools(IF hookData.tools = None THEN <<>> ELSE Get(hookData.tools))),
                     Field("Duration", FormatDuration(hookData.duration))>>
                   \o StatusFields(isSuccess, hookData.error) \o UsageFields(stats)]

\* The message of the input-requested hook.
InputMessage(hookData, stats) ==
    [title |-> "Input Requested",
     color |-> "0xFFD700",
     fields |-> <<Field("Prompt", PromptPreview(hookData.prompt)), Field("Time", TextValue("<time>"))>>
                \o UsageFields(stats)]

BuildMessage(v, hookData, ep, stats) ==
    IF v = "transcript" THEN TranscriptMessage(ep, stats)
    ELSE IF v = "direct" THEN DirectMessage(hookData, stats)
    ELSE InputMessage(hookData, stats)

\* The exit code of a hook whose catch block exits with 1 after an error.
ExitCodeOf_failOnError(threw) == IF threw THEN 1 ELSE 0

\* The argument of process.exit at the end of main, reached after the try
\* block whether or not its catch block ran.
ExitCodeOf(threw) == 0

\* Names of tools, and the longest tool list explored under SpecMessage.
ToolAlphabet == {"Read", "Edit", "Bash"}

MaxTools == 4

ToolLists == UNION {[1..n -> ToolAlphabet] : n \in 0..MaxTools}

\* ------------------------------------------------------------- the state

VARIABLES
    file,        \* the transcript file: "missing", "unreadable" or "ok"
    log,         \* the lines of the transcript file
    parsed,      \* TRUE once parseTranscript has returned for this file content
    result,      \* what parseTranscript returned
    session,     \* TRUE while the tmux session claude-usage-checker exists
    calls,       \* number of getUsageStats calls started in this process
    qat,         \* position of the current getUsageStats call
    qidx,        \* index of the current command in its sequence
    qphase,      \* "issue": about to exec; "await": exec pending; "sleep": delay running
    trace,       \* the tmux commands issued by this process, with their outcome
                 \* and whether the delay slept after them has elapsed
    screen,      \* the stdout of the last capture-pane
    usage,       \* what the last getUsageStats call returned (None is null)
    qraised,     \* TRUE if a getUsageStats call raised to its caller
    variant,     \* which hook program runs
    pc,          \* what main awaits: "stdin", "usage", "fetch"; "exited"; "lib" outside a hook
    input,       \* the payload the caller writes to stdin
    nchunks,     \* the number of pieces it is written in
    received,    \* the pieces readStdin's data listener has appended
    stdinEnded,  \* the stream has ended
    timerFired,  \* readStdin's timer has fired
    resolved,    \* the value readStdin's promise resolved with (None: pending)
    webhook,     \* DISCORD_WEBHOOK is configured
    hookData,    \* the parsed payload
    threw,       \* main's catch block ran
    message,     \* the message handed to send (None: none)
    sendCalls,   \* calls of send
    posts,       \* POST requests issued by send
    delivery,    \* how the POST settled: "none" (not settled), "ok", "status", "error", "abort"
    interrupted, \* the SIGINT handler ran
    kills,       \* tmux kill-session attempts of cleanupSession
    exitCode,    \* the exit code of the process (None: running)
    peer,        \* a second getUsageStats invocation on the same session name,
                 \* running at the same time: its position, screen and result
    remaining,   \* the minutes-remaining build of parseUsageOutput at a reset
                 \* line: the time on the line, the local clock, the result
    ccusage,     \* the ccusage build of getUsageStats: blocks.remaining and
                 \* blocks.total of the ccusage output, and the percentage computed
    cli          \* the register-hooks CLI: .env, ~/.claude/settings.json and its
                 \* backup, and the last run

parseVars == <<file, log, parsed, result>>

quotaVars == <<session, calls, qat, qidx, qphase, trace, screen, usage, qraised>>

stdinVars == <<input, nchunks, received, stdinEnded, timerFired, resolved>>

mainVars == <<variant, pc, webhook, hookData, threw, message, sendCalls, posts, delivery, interrupted, kills, exitCode>>

hookVars == <<stdinVars, mainVars>>

vars == <<parseVars, quotaVars, hookVars, peer, remaining, ccusage, cli>>

NoResult == [raised |-> FALSE, failed |-> FALSE, ep |-> EmptyEpisode]

QuotaIdle ==
    /\ calls = 0
    /\ qat = "idle"
    /\ qidx = 0
    /\ qphase = "issue"
    /\ trace = <<>>
    /\ screen = <<>>
    /\ usage = None
    /\ qraised = FALSE

\* The hook variables of a process that is not a hook.
NoHook ==
    /\ variant = "direct"
    /\ pc = "lib"
    /\ input = EmptyData
    /\ nchunks = 0
    /\ received = 0
    /\ stdinEnded = FALSE
    /\ timerFired = FALSE
    /\ resolved = None
    /\ webhook = FALSE
    /\ hookData = EmptyObject
    /\ threw = FALSE
    /\ message = None
    /\ sendCalls = 0
    /\ posts = 0
    /\ delivery = "none"
    /\ interrupted = FALSE
    /\ kills = 0
    /\ exitCode = None

\* The minutes-remaining build is not at a reset line.
NotAtResetLine == [hours |-> 0, minutes |-> 0, isPM |-> FALSE, now |-> [h |-> 0, m |-> 0, s |-> 0], change |-> "none", resetMinutes |-> None]

\* The ccusage build of getUsageStats has not been given an output.
NoBlocks == [remaining |-> None, total |-> None, percent |-> None]

\* The hooks entry of the settings: absent, null, or an object with the two
\* notifier keys (input: UserPromptSubmit, task: Stop; each "none", "old" for
\* a command someone else put there, or "ours") and possibly keys of others.
HooksAbsent == [kind |-> "absent", input |-> "none", task |-> "none", foreign |-> FALSE]

HooksNull == [kind |-> "null", input |-> "none", task |-> "none", foreign |-> FALSE]

HooksObject(i, t, f) == [kind |-> "object", input |-> i, task |-> t, foreign |-> f]

\* A file at ~/.claude/settings.json (or its backup): missing, text that is
\* not JSON, the JSON text null, or a JSON object; format is how the text is
\* laid out, other stands for the entries besides hooks.
SettingsFile(k, fmt, o, h) == [kind |-> k, format |-> fmt, other |-> o, hooks |-> h]

MissingFile == SettingsFile("missing", "", "", HooksAbsent)

GarbageFile == SettingsFile("garbage", "", "", HooksAbsent)

NullFile == SettingsFile("null", "compact", "", HooksAbsent)

\* No settings file is looked at: the register-hooks CLI is not part of the
\* behaviours.
NoCli == [env |-> FALSE, settings |-> MissingFile, backup |-> MissingFile, prev |-> MissingFile,
          orig |-> MissingFile, last |-> "none", exitCode |-> None, runs |-> 0]

\* No second invocation is running.
PeerIdle == [at |-> "idle", idx |-> 0, phase |-> "issue", screen |-> <<>>, usage |-> None, raised |-> FALSE]

\* ------------------------------------------ SpecParse: the transcript file

ParseInit ==
    /\ file \in {"missing", "unreadable", "ok"}
    /\ log = <<>>
    /\ parsed = FALSE
    /\ result = NoResult
    /\ session = FALSE
    /\ QuotaIdle
    /\ NoHook
    /\ peer = PeerIdle
    /\ ccusage = NoBlocks
    /\ cli = NoCli
    /\ remaining = NotAtResetLine

\* The session appends one line to its transcript (the log is append-only).
AppendLine ==
    /\ file = "ok"
    /\ Len(log) < MaxLines
    /\ \E l \in Lines : log' = Append(log, l)
    /\ parsed' = FALSE
    /\ result' = NoResult
    /\ UNCHANGED file
    /\ UNCHANGED <<quotaVars, hookVars>>
    /\ UNCHANGED <<peer, remaining, ccusage, cli>>

\* A hook run calls parseTranscript on the file as it is now.
Parse ==
    /\ ~parsed
    /\ result' = parseTranscript(file, log)
    /\ parsed' = TRUE
    /\ UNCHANGED <<file, log>>
    /\ UNCHANGED <<quotaVars, hookVars>>
    /\ UNCHANGED <<peer, remaining, ccusage, cli>>

ParseNext == AppendLine \/ Parse

SpecParse == ParseInit /\ [][ParseNext]_vars

\* -------------------------------------------- SpecQuota: getUsageStats

\* Calls of getUsageStats made in sequence by one process.
MaxCalls == 2

QuotaInit ==
    /\ file = "ok"
    /\ log = <<>>
    /\ parsed = FALSE
    /\ result = NoResult
    /\ session \in BOOLEAN
    /\ QuotaIdle
    /\ NoHook
    /\ peer = PeerIdle
    /\ ccusage = NoBlocks
    /\ cli = NoCli
    /\ remaining = NotAtResetLine

\* getUsageStats is entered: refreshAndCapture, ensureSession and the session
\* check come first.
StartCall ==
    /\ calls' = calls + 1
    /\ qat' = "has"
    /\ qidx' = 0
    /\ qphase' = "issue"
    /\ screen' = <<>>
    /\ usage' = None
    /\ UNCHANGED <<trace, qraised>>

\* A caller invokes getUsageStats, after the previous call has returned.
CallGetUsageStats ==
    /\ pc = "lib"
    /\ qat \in {"idle", "returned"}
    /\ calls < MaxCalls
    /\ StartCall
    /\ UNCHANGED session
    /\ UNCHANGED <<parseVars, hookVars>>
    /\ UNCHANGED <<peer, remaining, ccusage, cli>>

InCommand == pc # "exited" /\ qat \in {"has", "create", "refresh"}

\* execAsync(cmd): the command of the current position is started.
IssueCommand ==
    /\ InCommand
    /\ qphase = "issue"
    /\ trace' = Append(trace, [call |-> calls, cmd |-> CommandAt(qat, qidx), outcome |-> "pending", settled |-> FALSE])
    /\ qphase' = "await"
    /\ UNCHANGED <<session, calls, qat, qidx, screen, usage, qraised>>
    /\ UNCHANGED <<parseVars, hookVars>>
    /\ UNCHANGED <<peer, remaining, ccusage, cli>>

\* The awaited command resolves: new-session brings the session into being,
\* capture-pane delivers the screen; control moves on, through the delay if
\* the code sleeps after this command.
CommandSucceeds ==
    /\ InCommand
    /\ qphase = "await"
    /\ CanSucceed(CommandAt(qat, qidx), session)
    /\ trace' = [trace EXCEPT ![Len(trace)].outcome = "ok"]
    /\ session' = IF CommandAt(qat, qidx) = "new-session" THEN TRUE ELSE session
    /\ IF CommandAt(qat, qidx) = "capture-pane"
       THEN \E s \in CapturedScreens : screen' = s
       ELSE screen' = screen
    /\ IF SleepsAfter(CommandAt(qat, qidx))
       THEN qphase' = "sleep" /\ UNCHANGED <<qat, qidx>>
       ELSE /\ qphase' = "issue"
            /\ qat' = NextPosition(qat, qidx).at
            /\ qidx' = NextPosition(qat, qidx).idx
    /\ UNCHANGED <<calls, usage, qraised>>
    /\ UNCHANGED <<parseVars, hookVars>>
    /\ UNCHANGED <<peer, remaining, ccusage, cli>>

\* The awaited command rejects: the catch block that encloses it runs; a
\* rejection no catch block encloses leaves getUsageStats as an exception.
CommandFails ==
    /\ InCommand
    /\ qphase = "await"
    /\ CanFail(CommandAt(qat, qidx), session)
    /\ trace' = [trace EXCEPT ![Len(trace)].outcome = "failed"]
    /\ qphase' = "issue"
    /\ qat' = FailPosition(qat, qidx).at
    /\ qidx' = FailPosition(qat, qidx).idx
    /\ qraised' = (qraised \/ FailPosition(qat, qidx).at = "raised")
    /\ UNCHANGED <<session, calls, screen, usage>>
    /\ UNCHANGED <<parseVars, hookVars>>
    /\ UNCHANGED <<peer, remaining, ccusage, cli>>

\* await sleep(ms): the delay after the command has elapsed.
SleepElapses ==
    /\ InCommand
    /\ qphase = "sleep"
    /\ qphase' = "issue"
    /\ trace' = [trace EXCEPT ![Len(trace)].settled = TRUE]
    /\ qat' = NextPosition(qat, qidx).at
    /\ qidx' = NextPosition(qat, qidx).idx
    /\ UNCHANGED <<session, calls, screen, usage, qraised>>
    /\ UNCHANGED <<parseVars, hookVars>>
    /\ UNCHANGED <<peer, remaining, ccusage, cli>>

\* parseUsageOutput(stdout) and getUsageStats' return.
ParseAndReturn ==
    /\ pc # "exited"
    /\ qat = "parse"
    /\ usage' = ToUsageStats(parseUsageOutput(screen))
    /\ qat' = "returned"
    /\ UNCHANGED <<session, calls, qidx, qphase, trace, screen, qraised>>
    /\ UNCHANGED <<parseVars, hookVars>>
    /\ UNCHANGED <<peer, remaining, ccusage, cli>>

\* The program running in the session exits (or the session is killed from
\* outside): the session is gone.
SessionEnds ==
    /\ pc # "exited"
    /\ session
    /\ session' = FALSE
    /\ UNCHANGED <<calls, qat, qidx, qphase, trace, screen, usage, qraised>>
    /\ UNCHANGED <<parseVars, hookVars>>
    /\ UNCHANGED <<peer, remaining, ccusage, cli>>

QuotaNext ==
    \/ CallGetUsageStats
    \/ IssueCommand
    \/ CommandSucceeds
    \/ CommandFails
    \/ SleepElapses
    \/ ParseAndReturn
    \/ SessionEnds

SpecQuota == QuotaInit /\ [][QuotaNext]_vars

\* getUsageStats under the scheduling the code provides: a command that is due
\* is started, a delay that runs elapses (setTimeout) and the parse runs. The
\* completion of a started tmux command is up to the tmux process: execAsync
\* is called without a timeout option, so nothing in the code makes
\* CommandSucceeds or CommandFails happen.
SpecQuotaLive ==
    /\ QuotaInit
    /\ [][QuotaNext]_vars
    /\ WF_vars(IssueCommand)
    /\ WF_vars(SleepElapses)
    /\ WF_vars(ParseAndReturn)

\* ------------------- SpecRace: two getUsageStats invocations at the same time

\* Two invocations of getUsageStats (of two hook processes started for events
\* close together) run against the one session name; nothing in ensureSession
\* or refreshAndCapture takes a lock. The first is carried by the variables of
\* SpecQuota, the second by peer; both have just been entered.
RaceInit ==
    /\ file = "ok"
    /\ log = <<>>
    /\ parsed = FALSE
    /\ result = NoResult
    /\ session \in BOOLEAN
    /\ calls = 1
    /\ qat = "has"
    /\ qidx = 0
    /\ qphase = "issue"
    /\ trace = <<>>
    /\ screen = <<>>
    /\ usage = None
    /\ qraised = FALSE
    /\ NoHook
    /\ peer = [PeerIdle EXCEPT !.at = "has"]
    /\ ccusage = NoBlocks
    /\ cli = NoCli
    /\ remaining = NotAtResetLine

PeerInCommand == peer.at \in {"has", "create", "refresh"}

PeerCommand == CommandAt(peer.at, peer.idx)

\* execAsync(cmd) of the second invocation.
PeerIssueCommand ==
    /\ PeerInCommand
    /\ peer.phase = "issue"
    /\ peer' = [peer EXCEPT !.phase = "await"]
    /\ UNCHANGED <<parseVars, quotaVars, hookVars>>
    /\ UNCHANGED <<remaining, ccusage, cli>>

\* The awaited command of the second invocation resolves.
PeerCommandSucceeds ==
    /\ PeerInCommand
    /\ peer.phase = "await"
    /\ CanSucceed(PeerCommand, session)
    /\ session' = IF PeerCommand = "new-session" THEN TRUE ELSE session
    /\ \E s \in (IF PeerCommand = "capture-pane" THEN CapturedScreens ELSE {peer.screen}) :
          peer' = IF SleepsAfter(PeerCommand)
                  THEN [peer EXCEPT !.phase = "sleep", !.screen = s]
                  ELSE [peer EXCEPT !.phase = "issue", !.screen = s,
                                    !.at = NextPosition(peer.at, peer.idx).at,
                                    !.idx = NextPosition(peer.at, peer.idx).idx]
    /\ UNCHANGED <<calls, qat, qidx, qphase, trace, screen, usage, qraised>>
    /\ UNCHANGED <<parseVars, hookVars>>
    /\ UNCHANGED <<remaining, ccusage, cli>>

\* The awaited command of the second invocation rejects.
PeerCommandFails ==
    /\ PeerInCommand
    /\ peer.phase = "await"
    /\ CanFail(PeerCommand, session)
    /\ peer' = [peer EXCEPT !.phase = "issue",
                            !.at = FailPosition(peer.at, peer.idx).at,
                            !.idx = FailPosition(peer.at, peer.idx).idx,
                            !.raised = (@ \/ FailPosition(peer.at, peer.idx).at = "raised")]
    /\ UNCHANGED <<parseVars, quotaVars, hookVars>>
    /\ UNCHANGED <<remaining, ccusage, cli>>

\* The delay of the second invocation has elapsed.
PeerSleepElapses ==
    /\ PeerInCommand
    /\ peer.phase = "sleep"
    /\ peer' = [peer EXCEPT !.phase = "issue",
                            !.at = NextPosition(peer.at, peer.idx).at,
                            !.idx = NextPosition(peer.at, peer.idx).idx]
    /\ UNCHANGED <<parseVars, quotaVars, hookVars>>
    /\ UNCHANGED <<remaining, ccusage, cli>>

\* parseUsageOutput and the return of the second invocation.
PeerParseAndReturn ==
    /\ peer.at = "parse"
    /\ peer' = [peer EXCEPT !.at = "returned", !.usage = ToUsageStats(parseUsageOutput(peer.screen))]
    /\ UNCHANGED <<parseVars, quotaVars, hookVars>>
    /\ UNCHANGED <<remaining, ccusage, cli>>

RaceNext ==
    \/ IssueCommand
    \/ CommandSucceeds
    \/ CommandFails
    \/ SleepElapses
    \/ ParseAndReturn
    \/ SessionEnds
    \/ PeerIssueCommand
    \/ PeerCommandSucceeds
    \/ PeerCommandFails
    \/ PeerSleepElapses
    \/ PeerParseAndReturn

SpecRace == RaceInit /\ [][RaceNext]_vars

\* ------------- SpecMinutes: the reset line in the minutes-remaining build

\* The 24-hour value with 12pm taken as 24 (no special case for 12).
ResetHour_plainPM(hours, isPM) == IF isPM THEN hours + 12 ELSE hours

\* let resetHour = hours; if (isPM && hours !== 12) resetHour += 12;
\* else if (!isPM && hours === 12) resetHour = 0;
ResetHour(hours, isPM) ==
    IF isPM /\ hours # 12 THEN hours + 12
    ELSE IF ~isPM /\ hours = 12 THEN 0
    ELSE hours

\* Seconds of a local wall-clock time since local midnight.
WallSeconds(h, m, s) == (h * 60 + m) * 60 + s

\* What a change of the local clock between two instants adds to the time
\* that really passes between them (Date.getTime counts real time): an hour
\* when clocks are set back, minus an hour when they are set forward.
ClockShift(change) ==
    IF change = "back" THEN 3600 ELSE IF change = "forward" THEN 0 - 3600 ELSE 0

\* resetTime.setHours(resetHour, minutes, 0, 0) on today's date, moved to
\* tomorrow's date if it is before now; as wall-clock seconds since today's
\* midnight.
ResetWall(hours, minutes, isPM, now) ==
    LET today == WallSeconds(ResetHour(hours, isPM), minutes, 0)
    IN IF today < WallSeconds(now.h, now.m, now.s) THEN today + 86400 ELSE today

\* Math.max(0, Math.floor((resetTime.getTime() - now.getTime()) / 1000 / 60))
ResetMinutesOf(hours, minutes, isPM, now, change) ==
    LET diff == ResetWall(hours, minutes, isPM, now) - WallSeconds(now.h, now.m, now.s) + ClockShift(change)
    IN IF diff < 0 THEN 0 ELSE diff \div 60

\* The minutes on the reset lines and the local times of day looked at.
LineMinutes == {0, 29, 59}

NowMinutes == {0, 29, 30, 59}

NowSeconds == {0, 30}

\* The changes of the local clock that can fall between now and the reset
\* time: none, or, when at least two wall-clock hours lie between them (room
\* for the hour that is repeated or left out), a set-back or a set-forward.
ClockChanges(hours, minutes, isPM, now) ==
    IF ResetWall(hours, minutes, isPM, now) - WallSeconds(now.h, now.m, now.s) >= 7200
    THEN {"none", "back", "forward"}
    ELSE {"none"}

\* parseUsageOutput of the minutes-remaining build has matched
\* /Resets\s+(\d+):(\d+)(am|pm)/i on a line with a valid 12-hour time; now is
\* the local time new Date() returns.
MinutesInit ==
    /\ file = "ok"
    /\ log = <<>>
    /\ parsed = FALSE
    /\ result = NoResult
    /\ session = TRUE
    /\ QuotaIdle
    /\ NoHook
    /\ peer = PeerIdle
    /\ ccusage = NoBlocks
    /\ cli = NoCli
    /\ \E hours \in 1..12, minutes \in LineMinutes, isPM \in BOOLEAN,
          h \in 0..23, m \in NowMinutes, sec \in NowSeconds :
          \E change \in ClockChanges(hours, minutes, isPM, [h |-> h, m |-> m, s |-> sec]) :
             remaining = [hours |-> hours, minutes |-> minutes, isPM |-> isPM,
                          now |-> [h |-> h, m |-> m, s |-> sec],
                          change |-> change, resetMinutes |-> None]

\* The reset branch of the scan: resetMinutes is computed.
ComputeResetMinutes ==
    /\ remaining.hours # 0
    /\ remaining.resetMinutes = None
    /\ remaining' = [remaining EXCEPT !.resetMinutes =
                         Some(ResetMinutesOf(remaining.hours, remaining.minutes, remaining.isPM,
                                             remaining.now, remaining.change))]
    /\ UNCHANGED <<parseVars, quotaVars, hookVars, peer, ccusage, cli>>

MinutesNext == ComputeResetMinutes

SpecMinutes == MinutesInit /\ [][MinutesNext]_vars

\* ------------------- SpecCcusage: the percentage of the ccusage build

\* Largest blocks.total looked at. For totals of this size the double
\* arithmetic of (used / total) * 100 rounds as the exact quotient does.
MaxTotal == 12

\* JavaScript truthiness of an optional number, as in !remaining.
IsFalsyNumber(o) == o = None \/ Get(o) = 0

\* Math.round of the quotient 100 * used / total, for total > 0 and
\* used >= 0: the nearest integer, a half rounded up.
RoundPercent(used, total) == (200 * used + total) \div (2 * total)

\* calculateTokenPercentage(data.blocks?.remaining, data.blocks?.total)
calculateTokenPercentage(remainingBlocks, total) ==
    IF IsFalsyNumber(remainingBlocks) \/ IsFalsyNumber(total) THEN 0
    ELSE RoundPercent(Get(total) - Get(remainingBlocks), Get(total))

OptCounts == {None} \cup {Some(n) : n \in 0..MaxTotal}

\* ccusage has printed its JSON; blocks.remaining and blocks.total are
\* absent or counts with remaining <= total.
CcusageInit ==
    /\ file = "ok"
    /\ log = <<>>
    /\ parsed = FALSE
    /\ result = NoResult
    /\ session = FALSE
    /\ QuotaIdle
    /\ NoHook
    /\ peer = PeerIdle
    /\ remaining = NotAtResetLine
    /\ cli = NoCli
    /\ \E r \in OptCounts, t \in OptCounts :
          /\ (r # None /\ t # None) => Get(r) <= Get(t)
          /\ ccusage = [remaining |-> r, total |-> t, percent |-> None]

\* getUsageStats of the ccusage build computes tokenPercentageUsed.
CalculateTokenPercentage ==
    /\ ccusage.percent = None
    /\ ccusage' = [ccusage EXCEPT !.percent = Some(calculateTokenPercentage(ccusage.remaining, ccusage.total))]
    /\ UNCHANGED <<parseVars, quotaVars, hookVars, peer, remaining, cli>>

CcusageNext == CalculateTokenPercentage

SpecCcusage == CcusageInit /\ [][CcusageNext]_vars

\* ------------------------------------ SpecCli: the register-hooks CLI

\* Runs of the CLI in a behaviour.
MaxRuns == 3

HookValues == {"none", "old", "ours"}

\* The settings files a run may find.
SettingsFiles ==
    {MissingFile, GarbageFile, NullFile}
        \cup {SettingsFile("object", fmt, o, h) :
                 fmt \in {"pretty", "compact"}, o \in {"", "model"},
                 h \in {HooksAbsent, HooksNull}
                          \cup {HooksObject(i, t, f) : i \in HookValues, t \in HookValues, f \in BOOLEAN}}

\* JSON.parse(settingsContent): the value, whatever the layout of the text.
ParseSettings(f) == [f EXCEPT !.format = ""]

\* JSON.stringify(settings, null, 2): the text, indented by two blanks.
StringifySettings(v) == [v EXCEPT !.format = "pretty"]

\* The unregister branch with the hooks entry deleted whatever else it holds.
RemoveHooks_dropAll(v) == [v EXCEPT !.hooks = HooksAbsent]

\* The unregister branch: the two keys are deleted from a truthy hooks entry,
\* and the entry itself when no key is left.
RemoveHooks(v) ==
    IF v.hooks.kind # "object" THEN v
    ELSE IF v.hooks.foreign THEN [v EXCEPT !.hooks = HooksObject("none", "none", TRUE)]
    ELSE [v EXCEPT !.hooks = HooksAbsent]

\* The register branch: a falsy hooks entry becomes {}, then both keys are set.
AddHooks(v) ==
    [v EXCEPT !.hooks = HooksObject("ours", "ours", IF v.hooks.kind = "object" THEN v.hooks.foreign ELSE FALSE)]

\* main without the check for .env.
RunMain_noEnvCheck(isUnregister, env, settings, backup) ==
    IF settings.kind \in {"missing", "garbage"}
    THEN [settings |-> settings, backup |-> backup, exitCode |-> 1]
    ELSE IF settings.kind = "null"
    THEN [settings |-> settings, backup |-> settings, exitCode |-> 1]
    ELSE LET v == ParseSettings(settings)
         IN [settings |-> StringifySettings(IF isUnregister THEN RemoveHooks(v) ELSE AddHooks(v)),
             backup |-> settings, exitCode |-> 0]

\* One run of main: what it leaves in the settings file and the backup, and
\* the exit code. Without .env (register) or without the settings file it
\* exits 1 at once; JSON.parse throwing, or settings.hooks read on null (after
\* the backup was written), goes to the catch block and exits 1; otherwise the
\* backup is copied, the settings are changed and written, and the process
\* ends with code 0. writeFileSync and copyFileSync are taken to complete.
RunMain(isUnregister, env, settings, backup) ==
    IF ~isUnregister /\ ~env
    THEN [settings |-> settings, backup |-> backup, exitCode |-> 1]
    ELSE IF settings.kind \in {"missing", "garbage"}
    THEN [settings |-> settings, backup |-> backup, exitCode |-> 1]
    ELSE IF settings.kind = "null"
    THEN [settings |-> settings, backup |-> settings, exitCode |-> 1]
    ELSE LET v == ParseSettings(settings)
         IN [settings |-> StringifySettings(IF isUnregister THEN RemoveHooks(v) ELSE AddHooks(v)),
             backup |-> settings, exitCode |-> 0]

CliInit ==
    /\ file = "ok"
    /\ log = <<>>
    /\ parsed = FALSE
    /\ result = NoResult
    /\ session = FALSE
    /\ QuotaIdle
    /\ NoHook
    /\ peer = PeerIdle
    /\ remaining = NotAtResetLine
    /\ ccusage = NoBlocks
    /\ \E e \in BOOLEAN, f \in SettingsFiles :
          cli = [env |-> e, settings |-> f, backup |-> MissingFile, prev |-> f, orig |-> f,
                 last |-> "none", exitCode |-> None, runs |-> 0]

\* The CLI is run once, to register or (--unregister) to unregister.
RunCli(isUnregister) ==
    /\ cli.runs < MaxRuns
    /\ LET r == RunMain(isUnregister, cli.env, cli.settings, cli.backup)
       IN cli' = [cli EXCEPT !.settings = r.settings, !.backup = r.backup, !.prev = cli.settings,
                             !.last = IF isUnregister THEN "unregister" ELSE "register",
                             !.exitCode = Some(r.exitCode), !.runs = @ + 1]
    /\ UNCHANGED <<parseVars, quotaVars, hookVars, peer, remaining, ccusage>>

Register == RunCli(FALSE)

Unregister == RunCli(TRUE)

CliNext == Register \/ Unregister

SpecCli == CliInit /\ [][CliNext]_vars

\* ------------------------------ SpecScreen: parseUsageOutput on any screen

\* The commands of a call that found the session present, up to the capture.
TraceAtParse ==
    [i \in 1..(1 + Len(RefreshSeq)) |->
        LET cmd == IF i = 1 THEN "has-session" ELSE RefreshSeq[i - 1]
        IN [call |-> 1, cmd |-> cmd, outcome |-> "ok", settled |-> SleepsAfter(cmd)]]

\* refreshAndCapture at line 54: capture-pane has returned stdout, which may
\* be any screen; parseUsageOutput is about to run.
ScreenInit ==
    /\ file = "ok"
    /\ log = <<>>
    /\ parsed = FALSE
    /\ result = NoResult
    /\ session = TRUE
    /\ calls = 1
    /\ qat = "parse"
    /\ qidx = 0
    /\ qphase = "issue"
    /\ trace = TraceAtParse
    /\ screen \in Screens
    /\ usage = None
    /\ qraised = FALSE
    /\ NoHook
    /\ peer = PeerIdle
    /\ ccusage = NoBlocks
    /\ cli = NoCli
    /\ remaining = NotAtResetLine

ScreenNext == ParseAndReturn

SpecScreen == ScreenInit /\ [][ScreenNext]_vars

\* ------------------------------------------------- Spec: one hook process

Init ==
    /\ variant \in Variants
    /\ input \in PayloadsFor(variant)
    /\ nchunks \in (IF input.kind = "empty" THEN {0} ELSE 1..MaxChunks)
    /\ \E t \in HookTranscripts :
          /\ input.transcript_path = None => t.file = "missing"
          /\ file = t.file
          /\ log = t.log
    /\ parsed = FALSE
    /\ result = NoResult
    /\ session \in BOOLEAN
    /\ QuotaIdle
    /\ pc = "stdin"
    /\ received = 0
    /\ stdinEnded = FALSE
    /\ timerFired = FALSE
    /\ resolved = None
    /\ webhook \in BOOLEAN
    /\ hookData = EmptyObject
    /\ threw = FALSE
    /\ message = None
    /\ sendCalls = 0
    /\ posts = 0
    /\ delivery = "none"
    /\ interrupted = FALSE
    /\ kills = 0
    /\ exitCode = None
    /\ peer = PeerIdle
    /\ ccusage = NoBlocks
    /\ cli = NoCli
    /\ remaining = NotAtResetLine

\* stdin 'data': a piece of the payload arrives and is appended to data; the
\* listener stays attached after the promise has settled.
StdinChunk ==
    /\ pc # "exited"
    /\ ~stdinEnded
    /\ received < nchunks
    /\ received' = received + 1
    /\ UNCHANGED <<input, nchunks, stdinEnded, timerFired, resolved>>
    /\ UNCHANGED <<parseVars, quotaVars, mainVars>>
    /\ UNCHANGED <<peer, remaining, ccusage, cli>>

\* The 'end' listener of a readStdin whose promise takes the last value handed
\* to resolve.
StdinEnd_resettles ==
    /\ pc # "exited"
    /\ ~stdinEnded
    /\ received = nchunks
    /\ stdinEnded' = TRUE
    /\ resolved' = Some(DataAfter(input, nchunks, received))
    /\ UNCHANGED <<input, nchunks, received, timerFired>>
    /\ UNCHANGED <<parseVars, quotaVars, mainVars>>
    /\ UNCHANGED <<peer, remaining, ccusage, cli>>

\* stdin 'end': the caller has closed the stream; resolve(data).
StdinEnd ==
    /\ pc # "exited"
    /\ ~stdinEnded
    /\ received = nchunks
    /\ stdinEnded' = TRUE
    /\ resolved' = IF resolved = None THEN Some(DataAfter(input, nchunks, received)) ELSE resolved
    /\ UNCHANGED <<input, nchunks, received, timerFired>>
    /\ UNCHANGED <<parseVars, quotaVars, mainVars>>
    /\ UNCHANGED <<peer, remaining, ccusage, cli>>

\* readStdin without its timer.
StdinTimer_noTimer == FALSE

\* The 1000 ms timer of readStdin fires; resolve(data) with what has arrived.
StdinTimer ==
    /\ pc # "exited"
    /\ ~timerFired
    /\ timerFired' = TRUE
    /\ resolved' = IF resolved = None THEN Some(DataAfter(input, nchunks, received)) ELSE resolved
    /\ UNCHANGED <<input, nchunks, received, stdinEnded>>
    /\ UNCHANGED <<parseVars, quotaVars, mainVars>>
    /\ UNCHANGED <<peer, remaining, ccusage, cli>>

\* process.exit without the 'exit' handler of the usage scraper.
Exit_noCleanup(code, attempts) ==
    /\ pc' = "exited"
    /\ exitCode' = Some(code)
    /\ UNCHANGED <<kills, session>>

\* process.exit(code): the 'exit' handlers run cleanupSession `attempts` times
\* (tmux kill-session is started and not awaited, so it may or may not take
\* the session down before the process is gone).
Exit(code, attempts) ==
    /\ pc' = "exited"
    /\ exitCode' = Some(code)
    /\ kills' = kills + attempts
    /\ session' \in {session, FALSE}

\* The catch block of main followed by process.exit.
CatchAndExit ==
    /\ threw' = TRUE
    /\ Exit(ExitCodeOf(TRUE), 1)

\* main resumes with the stdin data: JSON.parse, then (transcript variant)
\* parseTranscript if the payload names a transcript, then getUsageStats is
\* called. An exception goes to the catch block and the exit.
MainAfterStdin ==
    /\ pc = "stdin"
    /\ resolved # None
    /\ LET p == ParseInput(Get(resolved))
           nullAccess == variant = "transcript" /\ p.value.kind = "null"
       IN IF p.threw \/ nullAccess
          THEN /\ CatchAndExit
               /\ hookData' = IF p.threw THEN hookData ELSE p.value
               /\ UNCHANGED <<calls, qat, qidx, qphase, trace, screen, usage, qraised>>
               /\ UNCHANGED parseVars
          ELSE /\ hookData' = p.value
               /\ IF variant = "transcript" /\ p.value.transcript_path # None
                  THEN /\ result' = parseTranscript(file, log)
                       /\ parsed' = TRUE
                       /\ UNCHANGED <<file, log>>
                  ELSE UNCHANGED parseVars
               /\ StartCall
               /\ pc' = "usage"
               /\ UNCHANGED <<session, threw, kills, exitCode>>
    /\ UNCHANGED <<variant, webhook, message, sendCalls, posts, delivery, interrupted>>
    /\ UNCHANGED stdinVars
    /\ UNCHANGED <<peer, remaining, ccusage, cli>>

\* main resumes with the usage statistics: the message is built and handed to
\* send, which returns at once without a webhook and otherwise POSTs it.
MainAfterUsage ==
    /\ pc = "usage"
    /\ qat \in {"returned", "raised"}
    /\ IF qat = "raised" \/ result.raised \/ hookData.kind = "null"
       THEN /\ CatchAndExit
            /\ UNCHANGED <<message, sendCalls, posts>>
       ELSE /\ message' = Some(BuildMessage(variant, hookData, result.ep, usage))
            /\ sendCalls' = sendCalls + 1
            /\ IF webhook
               THEN /\ posts' = posts + 1
                    /\ pc' = "fetch"
                    /\ UNCHANGED <<session, threw, kills, exitCode>>
               ELSE /\ Exit(ExitCodeOf(FALSE), 1)
                    /\ UNCHANGED <<posts, threw>>
    /\ UNCHANGED <<variant, webhook, hookData, delivery, interrupted>>
    /\ UNCHANGED <<calls, qat, qidx, qphase, trace, screen, usage, qraised>>
    /\ UNCHANGED <<parseVars, stdinVars>>
    /\ UNCHANGED <<peer, remaining, ccusage, cli>>

\* send without its try/catch: a rejected fetch reaches main's catch block.
FetchSettles_throws ==
    /\ pc = "fetch"
    /\ delivery' \in {"ok", "status", "error", "abort"}
    /\ IF delivery' \in {"error", "abort"}
       THEN CatchAndExit
       ELSE Exit(ExitCodeOf(FALSE), 1) /\ UNCHANGED threw
    /\ UNCHANGED <<variant, webhook, hookData, message, sendCalls, posts, interrupted>>
    /\ UNCHANGED <<calls, qat, qidx, qphase, trace, screen, usage, qraised>>
    /\ UNCHANGED <<parseVars, stdinVars>>
    /\ UNCHANGED <<peer, remaining, ccusage, cli>>

\* The POST settles (2xx, another status, a network error or the abort of the
\* 3 s timer); send logs and returns, main exits.
FetchSettles ==
    /\ pc = "fetch"
    /\ delivery' \in {"ok", "status", "error", "abort"}
    /\ Exit(ExitCodeOf(FALSE), 1)
    /\ UNCHANGED <<variant, webhook, hookData, threw, message, sendCalls, posts, interrupted>>
    /\ UNCHANGED <<calls, qat, qidx, qphase, trace, screen, usage, qraised>>
    /\ UNCHANGED <<parseVars, stdinVars>>
    /\ UNCHANGED <<peer, remaining, ccusage, cli>>

\* The exit code the SIGINT handler passes to process.exit.
SigintExitCode == 0

\* SIGINT without the handler of the usage scraper: the default disposition
\* ends the process with the signal (status 130) and runs no 'exit' handler.
Interrupt_noHandler ==
    /\ pc \in {"stdin", "usage", "fetch"}
    /\ interrupted' = TRUE
    /\ pc' = "exited"
    /\ exitCode' = Some(130)
    /\ UNCHANGED <<kills, session>>
    /\ UNCHANGED <<variant, webhook, hookData, threw, message, sendCalls, posts, delivery>>
    /\ UNCHANGED <<calls, qat, qidx, qphase, trace, screen, usage, qraised>>
    /\ UNCHANGED <<parseVars, stdinVars>>
    /\ UNCHANGED <<peer, remaining, ccusage, cli>>

\* SIGINT: the handler of the usage scraper calls cleanupSession and
\* process.exit(0), whose 'exit' handler calls cleanupSession again.
Interrupt ==
    /\ pc \in {"stdin", "usage", "fetch"}
    /\ interrupted' = TRUE
    /\ Exit(SigintExitCode, 2)
    /\ UNCHANGED <<variant, webhook, hookData, threw, message, sendCalls, posts, delivery>>
    /\ UNCHANGED <<calls, qat, qidx, qphase, trace, screen, usage, qraised>>
    /\ UNCHANGED <<parseVars, stdinVars>>
    /\ UNCHANGED <<peer, remaining, ccusage, cli>>

Next ==
    \/ StdinChunk
    \/ StdinEnd
    \/ StdinTimer
    \/ MainAfterStdin
    \/ IssueCommand
    \/ CommandSucceeds
    \/ CommandFails
    \/ SleepElapses
    \/ ParseAndReturn
    \/ SessionEnds
    \/ MainAfterUsage
    \/ FetchSettles
    \/ Interrupt

Spec == Init /\ [][Next]_vars

\* The runs looked at under SpecLive: the caller writes nothing, text that is
\* not JSON or the object {}, in any number of pieces, and names no transcript.
LiveInit ==
    /\ Init
    /\ input \in {EmptyData, GarbageData, EmptyObject}
    /\ file = "missing"

\* One hook process under the scheduling the code provides: readStdin's timer
\* fires, main resumes when the promise it awaits has settled, getUsageStats
\* goes on after every settled await, and the POST settles (by the response,
\* a network error or the abort of send's 3 s timer). What the caller writes
\* to stdin and whether a started tmux command ever completes is not up to
\* the code.
SpecLive ==
    /\ LiveInit
    /\ [][Next]_vars
    /\ WF_vars(StdinTimer)
    /\ WF_vars(MainAfterStdin)
    /\ WF_vars(IssueCommand)
    /\ WF_vars(SleepElapses)
    /\ WF_vars(ParseAndReturn)
    /\ WF_vars(MainAfterUsage)
    /\ WF_vars(FetchSettles)

\* --------------------- SpecMessage: the message for any list of tools

\* The payload-reading task-completed hook at the point where getUsageStats
\* has returned: the payload, read in one piece, carries any list of tools (or
\* none), and the capture returned one of the screens.
MessageInit ==
    /\ file = "missing"
    /\ log = <<>>
    /\ parsed = FALSE
    /\ result = NoResult
    /\ session = TRUE
    /\ calls = 1
    /\ qat = "returned"
    /\ qidx = 0
    /\ qphase = "issue"
    /\ trace = TraceAtParse
    /\ screen \in CapturedScreens
    /\ usage = ToUsageStats(parseUsageOutput(screen))
    /\ qraised = FALSE
    /\ variant = "direct"
    /\ pc = "usage"
    /\ \E tl \in {None} \cup {Some(t) : t \in ToolLists}, d \in {None, Some(2500)} :
          input = Payload("object", None, None, tl, d, None, None)
    /\ nchunks = 1
    /\ received = 1
    /\ stdinEnded = TRUE
    /\ timerFired = FALSE
    /\ resolved = Some(input)
    /\ webhook \in BOOLEAN
    /\ hookData = input
    /\ threw = FALSE
    /\ message = None
    /\ sendCalls = 0
    /\ posts = 0
    /\ delivery = "none"
    /\ interrupted = FALSE
    /\ kills = 0
    /\ exitCode = None
    /\ peer = PeerIdle
    /\ ccusage = NoBlocks
    /\ cli = NoCli
    /\ remaining = NotAtResetLine

MessageNext == MainAfterUsage \/ FetchSettles

SpecMessage == MessageInit /\ [][MessageNext]_vars

\* ------------------------------------------------- claims on the transcript

\* The positions of the log that hold a user message with a text body.
TextUserPositions == {i \in 1..Len(log) : log[i].kind = "entry" /\ IsUserMessage(log[i]) /\ log[i].content.isText}

HasAnchor == TextUserPositions # {}

\* The anchor: the most recent user message with a text body.
AnchorPos == CHOOSE i \in TextUserPositions : \A j \in TextUserPositions : j <= i

AssistantPositions == {i \in 1..Len(log) : log[i].kind = "entry" /\ log[i].type = "assistant"}

ToolNamesAt(S) == UNION {Range(ToolNames(log[i].content.parts)) : i \in S}

TextsAt(S) == UNION {Range(PartTexts(log[i].content.parts)) : i \in S}

BeforeAnchor == {i \in AssistantPositions : i < AnchorPos}

AfterAnchor == {i \in AssistantPositions : i > AnchorPos}

HasMalformed == \E i \in 1..Len(log) : log[i].kind = "malformed"

Returned == parsed /\ file = "ok" /\ ~result.failed

\* C1: when assistant entries precede the anchor, no tool name and no response
\* text that occurs only in assistant entries before the anchor appears in the
\* Episode, whatever timestamps the user entries carry.
C1_EarlierExchangeExcluded ==
    (Returned /\ HasAnchor) =>
        /\ \A n \in ToolNamesAt(BeforeAnchor) \ ToolNamesAt(AfterAnchor) : n \notin Range(result.ep.tools)
        /\ \A t \in TextsAt(BeforeAnchor) \ TextsAt(AfterAnchor) : t \notin Range(result.ep.response)

RECURSIVE WithoutKind(_, _)
WithoutKind(lines, k) ==
    IF lines = <<>> THEN <<>>
    ELSE (IF Head(lines).kind = k THEN <<>> ELSE <<Head(lines)>>) \o WithoutKind(Tail(lines), k)

C3_NeverRaises ==
    parsed =>
        /\ ~result.raised
        /\ (file # "ok" \/ HasMalformed) =>
               /\ result.failed
               /\ result.ep.tools = <<>>
               /\ result.ep.prompt = None
               /\ result.ep.response = <<>>
               /\ result.ep.duration = None
               /\ result.ep.error = None

\* C3 witness: parseTranscript returned for a missing file.
C3_Witness == parsed /\ file = "missing" /\ result.failed /\ ~result.raised

\* C4: duration is present only if the anchor user message itself carries a
\* timestamp and at least one timestamped entry follows the anchor.
C4_DurationOnlyWithAnchorTime ==
    (Returned /\ IsSome(result.ep.duration)) =>
        /\ HasAnchor
        /\ IsSome(log[AnchorPos].timestamp)
        /\ \E j \in 1..Len(log) : j > AnchorPos /\ IsSome(log[j].timestamp)

\* C5: a duration that is present is a non-negative number of milliseconds.
C5_DurationNonNegative ==
    (Returned /\ IsSome(result.ep.duration)) => Get(result.ep.duration) >= 0

\* C6: a log with no user message with a text body yields an Episode with an
\* empty tools list and prompt, response and duration absent, even when its
\* assistant entries hold tool invocations and text.
C6_NoAnchorEmptyEpisode ==
    (parsed /\ file = "ok" /\ ~HasAnchor) =>
        /\ result.ep.tools = <<>>
        /\ result.ep.prompt = None
        /\ result.ep.response = <<>>
        /\ result.ep.duration = None

\* C6 witness: a parsed log without an anchor that holds a timestamped
\* tool-result user entry followed by an assistant entry with a tool
\* invocation and text.
C6_Witness ==
    /\ parsed /\ file = "ok" /\ ~HasAnchor /\ ~result.failed
    /\ \E i, j \in 1..Len(log) :
          /\ i < j
          /\ log[i].kind = "entry" /\ IsUserMessage(log[i]) /\ Truthy(log[i].timestamp)
          /\ log[j].kind = "entry" /\ log[j].type = "assistant"
          /\ ToolNames(log[j].content.parts) # <<>>
          /\ PartTexts(log[j].content.parts) # <<>>

\* ------------------------------------------- claims on the quota collector

TraceOf(c) == {i \in 1..Len(trace) : trace[i].call = c}

CreatesIn(c) == Cardinality({i \in TraceOf(c) : trace[i].cmd = "new-session"})

CheckOk(c) == \E i \in TraceOf(c) : trace[i].cmd = "has-session" /\ trace[i].outcome = "ok"

\* Nothing was issued by the same call after command i.
LastOfItsCall(i) == \A j \in 1..Len(trace) : j > i => trace[j].call # trace[i].call

\* C9 (as stated): a failure at any step, the session check included, makes
\* the call return null, and no further step of that call is executed.
C9_AnyFailureEndsCall ==
    \A i \in 1..Len(trace) : trace[i].outcome = "failed" => LastOfItsCall(i)

\* C9 (amended): getUsageStats never raises; a failure of the session
\* creation, of a keystroke send or of the screen capture makes the call
\* return null with no further command issued, a snapshot is returned only
\* when the capture succeeded and the parse found something; a failing
\* session check does not end the call: it is followed by the session
\* creation.
C9_FailureReturnsNull ==
    /\ ~qraised
    /\ qat # "raised"
    /\ \A i \in 1..Len(trace) :
          /\ (trace[i].outcome = "failed" /\ trace[i].cmd # "has-session") =>
                 /\ LastOfItsCall(i)
                 /\ trace[i].call = calls => (qat = "returned" /\ usage = None)
          /\ (trace[i].outcome = "failed" /\ trace[i].cmd = "has-session" /\ i < Len(trace)) =>
                 (trace[i + 1].cmd = "new-session" /\ trace[i + 1].call = trace[i].call)
    /\ (qat = "returned" /\ usage # None) =>
          /\ trace[Len(trace)] = [call |-> calls, cmd |-> "capture-pane", outcome |-> "ok", settled |-> FALSE]
          /\ parseUsageOutput(screen) # None

\* C9 witness: a call returned null after its session check failed, the
\* session was created and a later keystroke send was rejected.
C9_Witness ==
    /\ qat = "returned" /\ usage = None /\ ~qraised
    /\ \E i, j \in TraceOf(calls) :
          /\ trace[i].cmd = "new-session" /\ trace[i].outcome = "ok"
          /\ j = Len(trace) /\ trace[j].cmd = "send-keys Enter" /\ trace[j].outcome = "failed"

\* C10 (as stated): session creation is invoked at most once across two
\* calls made in sequence.
C10_AtMostOneCreate == CreatesIn(1) + CreatesIn(2) <= 1

\* C10 (amended): a call invokes session creation only right after its own
\* session check failed (the session is absent: never created, its creation
\* failed, or it has ended since); a call that finds the session present
\* issues no creation and goes directly to the refresh sequence, and then
\* creation has been invoked at most once across this call and the one before.
C10_CreateOnlyWhenAbsent ==
    /\ \A i \in 1..Len(trace) :
          trace[i].cmd = "new-session" =>
              /\ i > 1
              /\ trace[i - 1].cmd = "has-session"
              /\ trace[i - 1].outcome = "failed"
              /\ trace[i - 1].call = trace[i].call
    /\ \A i \in 1..Len(trace) :
          (trace[i].cmd = "has-session" /\ trace[i].outcome = "ok" /\ i < Len(trace)) =>
              (trace[i + 1].cmd = "send-keys Escape Escape C-u" /\ trace[i + 1].call = trace[i].call)
    /\ \A c \in 1..calls :
          /\ CreatesIn(c) <= 1
          /\ CheckOk(c) => CreatesIn(c) = 0
          /\ (c > 1 /\ CheckOk(c)) => CreatesIn(c - 1) + CreatesIn(c) <= 1

\* C10 witness: the first call created the session, the second found it
\* present and returned a snapshot without creating it again.
C10_Witness ==
    /\ calls = 2 /\ qat = "returned" /\ usage # None
    /\ CreatesIn(1) = 1 /\ CheckOk(2) /\ CreatesIn(2) = 0
    /\ \E i \in TraceOf(1) : trace[i].cmd = "new-session" /\ trace[i].outcome = "ok"

\* The commands of call c, in the order they were issued.
CommandsOf(c) == SelectSeq(trace, LAMBDA e : e.call = c)

IsPrefix(s, t) == Len(s) <= Len(t) /\ \A i \in 1..Len(s) : s[i] = t[i]

CmdNames(es) == [i \in 1..Len(es) |-> es[i].cmd]

\* The order of the commands of one call when the session is present, and
\* when it is absent.
OrderWhenPresent ==
    <<"has-session",
      "send-keys Escape Escape C-u", "send-keys /usage", "send-keys Escape", "send-keys Enter", "capture-pane">>

OrderWhenAbsent ==
    <<"has-session",
      "new-session", "send-keys /usage", "send-keys Escape", "send-keys Enter",
      "send-keys Escape Escape C-u", "send-keys /usage", "send-keys Escape", "send-keys Enter", "capture-pane">>

\* The commands after which the code waits for the terminal to settle.
NeedsSettle(cmd) == cmd \notin {"has-session", "capture-pane"}

\* C11: the commands of one getUsageStats call are issued one at a time in
\* the fixed order (check; if absent: create, usage text, escape, confirm;
\* then escape-escape-clear-line, usage text, escape, confirm, capture): when
\* a command is issued the one before it has completed and, for the creation
\* and every keystroke send, succeeded with its settle delay elapsed; a
\* confirm directly follows a settled escape, the capture a settled confirm.
C11_OneAtATimeInOrder ==
    \A c \in 1..calls :
        LET es == CommandsOf(c)
        IN /\ Len(es) >= 1 =>
                 IF es[1].outcome = "failed"
                 THEN IsPrefix(CmdNames(es), OrderWhenAbsent)
                 ELSE IsPrefix(CmdNames(es), OrderWhenPresent)
           /\ \A i \in 1..Len(es) :
                 /\ i < Len(es) => es[i].outcome # "pending"
                 /\ (i < Len(es) /\ NeedsSettle(es[i].cmd)) => (es[i].outcome = "ok" /\ es[i].settled)
                 /\ es[i].cmd = "send-keys Enter" =>
                        (i > 1 /\ es[i - 1].cmd = "send-keys Escape" /\ es[i - 1].settled)
                 /\ es[i].cmd = "capture-pane" =>
                        (i > 1 /\ es[i - 1].cmd = "send-keys Enter" /\ es[i - 1].settled)

\* C11 witness: a call that found the session absent has issued all ten
\* commands and returned after a successful capture.
C11_Witness ==
    /\ qat = "returned"
    /\ CmdNames(CommandsOf(calls)) = OrderWhenAbsent
    /\ CommandsOf(calls)[10].outcome = "ok"

InCall == qat \in {"has", "create", "refresh", "parse"}

\* C12: every getUsageStats call that was started eventually returns (a
\* snapshot or null), also when a tmux command it started never completes.
C12_AlwaysReturns == InCall ~> (qat = "returned")

\* ------------------------------------------------ claims on the quota parse

SessionPositions == {i \in 1..Len(screen) : screen[i].session}

Least(S) == CHOOSE i \in S : \A j \in S : i <= j

\* The lines after the first "Current session" line that match the
\* percentage or the reset pattern.
MatchingAfterMarker ==
    {i \in 1..Len(screen) : i > Least(SessionPositions) /\ (IsSome(screen[i].percent) \/ IsSome(screen[i].reset))}

\* A line that matches the percentage pattern and is nothing else.
IsPercentOnly(l) == IsSome(l.percent) /\ l.reset = None /\ ~l.session /\ ~l.week

\* The "Resets" lines after line k.
ResetsAfter(k) == {i \in 1..Len(screen) : i > k /\ IsSome(screen[i].reset)}

\* The case of C13: after the first "Current session" line the first matching
\* line, k, is an "N% used" line, a "Resets" line r follows it with no
\* "Current week" line between the marker and r (r included), and k is the
\* single "N% used" line: no other line of the section up to and including r
\* has a percentage.
C13_Case ==
    /\ SessionPositions # {}
    /\ MatchingAfterMarker # {}
    /\ LET k == Least(MatchingAfterMarker)
       IN /\ IsPercentOnly(screen[k])
          /\ ResetsAfter(k) # {}
          /\ \A j \in Least(SessionPositions)..Least(ResetsAfter(k)) : ~screen[j].week
          /\ \A j \in (k + 1)..Least(ResetsAfter(k)) : IsSome(screen[j].percent) => screen[j].session

\* C13: in that case the snapshot is present, its percentage is N and its
\* reset description is the non-empty text of that "Resets" line.
C13_SessionSectionParsed ==
    (qat = "returned" /\ C13_Case) =>
        LET k == Least(MatchingAfterMarker)
        IN /\ usage # None
           /\ Get(usage).tokenPercentageUsed = Get(screen[k].percent)
           /\ Get(usage).resetTime = Trim(Get(screen[Least(ResetsAfter(k))].reset))
           /\ Get(usage).resetTime # ""

\* C13 witness: the screen "Current session", "23% used", "Resets 2:59pm
\* (America/New_York)" followed by a line with another percentage and reset
\* text was parsed to 23 and that reset text.
C13_Witness ==
    /\ qat = "returned" /\ C13_Case
    /\ Len(screen) = 4
    /\ screen[2] = PercentLine(23)
    /\ IsSome(screen[4].percent) /\ IsSome(screen[4].reset)
    /\ usage = Some([tokenPercentageUsed |-> 23, resetTime |-> "Resets 2:59pm (America/New_York)"])

Greatest(S) == CHOOSE i \in S : \A j \in S : j <= i

\* The lines the "Current session" section is read from: the lines after the
\* first marker that are not marker lines themselves, up to and including the
\* first of them that has a "Resets" text or contains "Current week".
SectionLines ==
    IF SessionPositions = {} THEN {}
    ELSE {i \in 1..Len(screen) :
             /\ i > Least(SessionPositions)
             /\ ~screen[i].session
             /\ \A j \in (Least(SessionPositions) + 1)..(i - 1) :
                    screen[j].session \/ (~screen[j].week /\ screen[j].reset = None)}

PercentsRead == {i \in SectionLines : IsSome(screen[i].percent)}

ResetsRead == {i \in SectionLines : IsSome(screen[i].reset)}

\* What was found in the section: the percentage read last (0 if none
\* matched) and the reset description ("" if none matched).
FoundPercent == IF PercentsRead = {} THEN 0 ELSE Get(screen[Greatest(PercentsRead)].percent)

FoundReset == IF ResetsRead = {} THEN "" ELSE Trim(Get(screen[Least(ResetsRead)].reset))

C15_PercentInRange ==
    (qat = "returned" /\ usage # None) => Get(usage).tokenPercentageUsed \in 0..100

\* --------------------------------------------------- claims on the hooks

\* C7: every run of a notification hook ends with exit code 0, whichever
\* step failed (stdin payload, transcript, quota collection, delivery) and
\* also when the run was interrupted.
C7_ExitCodeZero ==
    /\ pc = "exited" => exitCode = Some(0)
    /\ exitCode # None => (pc = "exited" /\ Get(exitCode) = 0)

\* C7 witness: a run has exited after its catch block ran.
C7_Witness == pc = "exited" /\ threw /\ ~interrupted /\ exitCode = Some(0)

Uninterrupted == pc = "exited" /\ ~interrupted /\ resolved # None

\* C8 (as stated): an empty or unparseable payload is treated as {}: the hook
\* builds the message of the payload {} and hands it to the channel.
C8_UnparseableAsEmpty ==
    (Uninterrupted /\ Get(resolved).kind \in {"empty", "garbage"}) =>
        /\ sendCalls = 1
        /\ message = Some(BuildMessage(variant, EmptyObject, EmptyEpisode, usage))

\* C8 (amended): an empty payload is treated as {}: one message with the
\* placeholder fields is built and handed to the channel; an unparseable
\* payload is not fatal (exit code 0) but is not treated as {}: main's catch
\* block runs, the quota is not collected and no message is built or handed
\* to the channel.
C8_EmptyAsObjectUnparseableCaught ==
    /\ (Uninterrupted /\ Get(resolved).kind = "empty") =>
          /\ hookData = EmptyObject
          /\ ~threw
          /\ sendCalls = 1
          /\ message # None
          /\ Get(message).fields[1] = Field("Prompt", TextValue("No prompt provided"))
          /\ variant # "input" =>
                /\ Get(message).title = "Task Completed"
                /\ Field("Tools", TextValue("None")) \in Range(Get(message).fields)
                /\ Field("Duration", TextValue("Unknown")) \in Range(Get(message).fields)
                /\ Field("Status", TextValue("Success")) \in Range(Get(message).fields)
    /\ (Uninterrupted /\ Get(resolved).kind = "garbage") =>
          /\ threw
          /\ exitCode = Some(0)
          /\ calls = 0
          /\ sendCalls = 0
          /\ message = None

\* C8 witness: a run whose stdin data was unparseable has exited.
C8_Witness ==
    /\ Uninterrupted /\ Get(resolved).kind = "garbage" /\ input.kind = "garbage"
    /\ received = nchunks /\ stdinEnded /\ threw /\ message = None

\* ------------------------------------------ claims on the task-completed message

HasField(n, v) == Field(n, v) \in Range(Get(message).fields)

HasFieldNamed(n) == \E i \in 1..Len(Get(message).fields) : Get(message).fields[i].name = n

\* The two builds of the task-completed hook.
TaskVariants == {"transcript", "direct"}

\* A message was built from a payload with prompt, tools, duration and status
\* "success" and without a transcript path.
DirectSuccessCase ==
    /\ message # None
    /\ hookData.kind = "object"
    /\ hookData.transcript_path = None
    /\ hookData.prompt # None
    /\ hookData.tools = Some(<<"Read", "Edit", "Read">>)
    /\ hookData.duration # None
    /\ hookData.status = Some("success")

ReadTwiceEditOnce == CountsValue(<<[tool |-> "Read", count |-> 2], [tool |-> "Edit", count |-> 1]>>)

\* C16 (as stated): such a payload given to the task-completed hook produces
\* the message "Task Completed", green, with the payload duration in seconds
\* with one decimal and the aggregated counts of the payload tools.
C16_DirectPayloadRendered ==
    (variant \in TaskVariants /\ DirectSuccessCase) =>
        /\ Get(message).title = "Task Completed"
        /\ Get(message).color = "0x00FF00"
        /\ HasField("Duration", SecondsValue(Get(hookData.duration) \div 100))
        /\ HasField("Tools", ReadTwiceEditOnce)

\* C16 (amended): the build that takes its data from the payload produces
\* "Task Completed", green, with the tool counts of the payload and a positive
\* payload duration in seconds with one decimal (2500 gives 2.5s; 0 gives
\* "Unknown"); the hook that reads the transcript ignores these payload
\* fields: without a transcript path its message is "Task Completed", green,
\* with the placeholders for prompt, response, tools and duration.
C16_PayloadBuildRendersPayload ==
    /\ (variant = "direct" /\ DirectSuccessCase) =>
          /\ Get(message).title = "Task Completed"
          /\ Get(message).color = "0x00FF00"
          /\ HasField("Prompt", TextValue(Get(hookData.prompt)))
          /\ HasField("Tools", ReadTwiceEditOnce)
          /\ hookData.duration = Some(2500) => HasField("Duration", SecondsValue(25))
          /\ hookData.duration = Some(0) => HasField("Duration", TextValue("Unknown"))
          /\ HasField("Status", TextValue("Success"))
    /\ (variant = "transcript" /\ DirectSuccessCase) =>
          /\ Get(message).title = "Task Completed"
          /\ Get(message).color = "0x00FF00"
          /\ HasField("Prompt", TextValue("No prompt provided"))
          /\ HasField("Response", TextValue("No response"))
          /\ HasField("Tools", TextValue("None"))
          /\ HasField("Duration", TextValue("Unknown"))
          /\ HasField("Status", TextValue("Success"))

\* C16 witness: the payload build has built the message of the test payload,
\* with 2.5s and Read (2), Edit (1).
C16_Witness ==
    /\ variant = "direct" /\ DirectSuccessCase
    /\ hookData = TestTaskPayload
    /\ HasField("Duration", SecondsValue(25))
    /\ HasField("Tools", ReadTwiceEditOnce)

\* A message was built from a payload with a non-empty error and no status.
ErrorCase ==
    /\ message # None
    /\ hookData.kind = "object"
    /\ IsTruthyText(hookData.error)
    /\ hookData.status = None

FieldValue(n) ==
    LET fs == Get(message).fields
    IN fs[CHOOSE i \in 1..Len(fs) : fs[i].name = n].value

\* The tool list the payload-reading hook formats: hookData.tools || [].
PayloadTools == IF hookData.tools = None THEN <<>> ELSE Get(hookData.tools)

Occurrences(t, tools) == Cardinality({k \in 1..Len(tools) : tools[k] = t})

FirstIndex(t, tools) == Least({k \in 1..Len(tools) : tools[k] = t})

RECURSIVE SumCounts(_)
SumCounts(cs) == IF cs = <<>> THEN 0 ELSE Head(cs).count + SumCounts(Tail(cs))

\* C18: the tools field names each distinct tool of the list exactly once, in
\* the order of first occurrence, each with the number of its occurrences (the
\* counts add up to the length of the list); the empty list renders "None".
C18_ToolCounts ==
    (message # None /\ variant = "direct") =>
        LET tools == PayloadTools
            cs == FieldValue("Tools").counts
        IN IF tools = <<>> THEN FieldValue("Tools") = TextValue("None")
           ELSE /\ FieldValue("Tools") = CountsValue(cs)
                /\ {cs[i].tool : i \in 1..Len(cs)} = Range(tools)
                /\ \A i, j \in 1..Len(cs) : i # j => cs[i].tool # cs[j].tool
                /\ \A i \in 1..Len(cs) : cs[i].count = Occurrences(cs[i].tool, tools)
                /\ \A i, j \in 1..Len(cs) : i < j => FirstIndex(cs[i].tool, tools) < FirstIndex(cs[j].tool, tools)
                /\ SumCounts(cs) = Len(tools)

\* C18 witness: the list Edit, Read, Edit, Bash was rendered as Edit (2),
\* Read (1), Bash (1).
C18_Witness ==
    /\ message # None /\ variant = "direct"
    /\ PayloadTools = <<"Edit", "Read", "Edit", "Bash">>
    /\ FieldValue("Tools") = CountsValue(<<[tool |-> "Edit", count |-> 2], [tool |-> "Read", count |-> 1], [tool |-> "Bash", count |-> 1]>>)

FieldsNamed(n) == {i \in 1..Len(Get(message).fields) : Get(message).fields[i].name = n}

\* The prompt, tools and duration the message is built from.
SourcePrompt == IF variant = "transcript" THEN result.ep.prompt ELSE hookData.prompt

SourceTools == IF variant = "transcript" THEN result.ep.tools ELSE PayloadTools

SourceDuration == IF variant = "transcript" THEN result.ep.duration ELSE hookData.duration

\* C19: every task-completed message has one prompt, one tools and one
\* duration field, with the placeholders "No prompt provided", "None" and
\* "Unknown" for a missing value, and exactly one of a status and an error
\* field; it has the usage field exactly when the snapshot is not absent; and
\* a run that was not interrupted and did not fail hands its message to send,
\* with or without a snapshot.
C19_StableMessageShape ==
    /\ (message # None /\ variant \in TaskVariants) =>
          /\ Cardinality(FieldsNamed("Prompt")) = 1
          /\ Cardinality(FieldsNamed("Tools")) = 1
          /\ Cardinality(FieldsNamed("Duration")) = 1
          /\ Cardinality(FieldsNamed("Status")) + Cardinality(FieldsNamed("Error")) = 1
          /\ SourcePrompt = None => FieldValue("Prompt") = TextValue("No prompt provided")
          /\ SourceTools = <<>> => FieldValue("Tools") = TextValue("None")
          /\ SourceDuration = None => FieldValue("Duration") = TextValue("Unknown")
          /\ Cardinality(FieldsNamed("Usage Stats")) = (IF usage # None THEN 1 ELSE 0)
          /\ usage # None => FieldValue("Usage Stats") = UsageValue(Get(usage))
          /\ sendCalls = 1
    /\ (variant \in TaskVariants /\ pc = "exited" /\ ~interrupted /\ ~threw) =>
          (message # None /\ sendCalls = 1)

\* C19 witness: getUsageStats returned null and the transcript-reading hook
\* has sent its message, all placeholders, without the usage field.
C19_Witness ==
    /\ variant = "transcript" /\ pc = "exited" /\ ~interrupted /\ ~threw
    /\ qat = "returned" /\ usage = None
    /\ message # None /\ sendCalls = 1 /\ posts = 1
    /\ FieldValue("Prompt") = TextValue("No prompt provided")
    /\ FieldValue("Tools") = TextValue("None")
    /\ FieldValue("Duration") = TextValue("Unknown")
    /\ FieldsNamed("Usage Stats") = {}

\* A payload that names a transcript was parsed by the transcript-reading hook.
TranscriptGiven == variant = "transcript" /\ hookData.kind = "object" /\ hookData.transcript_path # None

\* C20: in the task-completed flow the quota collection is started without
\* waiting for the transcript reconstruction: at the step that starts
\* getUsageStats the reconstruction of a given transcript has not finished
\* yet; and the message is built only after both have completed.
C20_IssuedConcurrently ==
    [][/\ (calls' > calls /\ TranscriptGiven') => ~parsed'
       /\ (message = None /\ message' # None) =>
              (qat' = "returned" /\ (TranscriptGiven' => parsed'))]_vars

\* ------------------------------------------------ claims on the hook process

\* The caller has neither written to stdin nor closed it, and readStdin has
\* completed.
SilentCaller == resolved # None /\ received = 0 /\ ~stdinEnded

\* C21: a hook never stays in readStdin: main always gets past it, at the end
\* of the stream or when the timer fires; with a caller that neither writes
\* nor closes, main goes on with the payload {}, and a run that is not
\* interrupted hands its message to send before it exits. The only places
\* where a run can stay forever are the exit and the wait for a tmux command.
C21_StdinNeverBlocks ==
    /\ (pc = "stdin") ~> (pc # "stdin")
    /\ <>[](pc = "exited" \/ qphase = "await")
    /\ []((SilentCaller /\ pc # "stdin" /\ ~interrupted) =>
             (timerFired /\ Get(resolved) = EmptyData /\ hookData = EmptyObject /\ ~threw /\ calls = 1))
    /\ []((SilentCaller /\ pc = "exited" /\ ~interrupted) => (message # None /\ sendCalls = 1))

\* C21 witness: the caller wrote and closed nothing, the timer fired and the
\* run has exited after sending its message.
C21_Witness ==
    /\ SilentCaller /\ input.kind = "object" /\ timerFired
    /\ pc = "exited" /\ ~interrupted /\ exitCode = Some(0)
    /\ sendCalls = 1 /\ posts = 1

\* C22 (as stated): the session is left running when a hook process finishes:
\* the step that ends the process leaves the session as it was.
C22_SessionLeftRunning == [][(pc # "exited" /\ pc' = "exited") => (session' = session)]_vars

CheckFailed(c) == \E i \in TraceOf(c) : trace[i].cmd = "has-session" /\ trace[i].outcome = "failed"

CreatedHere == \E i \in 1..Len(trace) : trace[i].cmd = "new-session" /\ trace[i].outcome = "ok"

\* C22 (amended): every hook process that ends has attempted to terminate the
\* session, so the session outlives it only if the attempt does not take
\* effect; a process reuses the session without creating it exactly when its
\* has-session check finds it present, and otherwise goes on to create it.
\* (The session a process finds at its start is what earlier processes left.)
C22_TerminatedOnExitReusedIfFound ==
    /\ pc = "exited" => kills >= 1
    /\ CheckOk(1) => CreatesIn(1) = 0
    /\ (CheckFailed(1) /\ Len(trace) >= 2) => trace[2].cmd = "new-session"
    /\ CreatesIn(1) = 1 => CheckFailed(1)

\* A process that created the session has finished on its own, the
\* termination was attempted and the session is gone.
C22_Witness ==
    /\ pc = "exited" /\ ~interrupted /\ exitCode = Some(0)
    /\ CreatedHere /\ qat = "returned"
    /\ kills = 1 /\ ~session

\* The session was absent at the check and has not been created since: a
\* kill-session started now fails.
SessionNeverPresent == CheckFailed(1) /\ ~CreatedHere

\* C23: the step that ends the process, on its own or by SIGINT, starts the
\* termination of the session (once from the 'exit' handler, once more from
\* the SIGINT handler) and exits with code 0; a termination that fails because
\* the session is gone leaves it gone and changes nothing else: the process
\* has exited with code 0 all the same.
C23_TerminationAttemptedFailureSwallowed ==
    /\ [][(pc # "exited" /\ pc' = "exited") =>
            /\ kills' = kills + (IF interrupted' THEN 2 ELSE 1)
            /\ exitCode' = Some(0)
            /\ ~session => ~session']_vars
    /\ [](pc = "exited" => (kills >= 1 /\ exitCode = Some(0)))
    /\ []((pc = "exited" /\ SessionNeverPresent) => (~session /\ exitCode = Some(0)))

\* An interrupted process whose session was never there: both termination
\* attempts failed and the exit code is 0.
C23_Witness ==
    /\ pc = "exited" /\ interrupted /\ SessionNeverPresent
    /\ kills = 2 /\ ~session /\ exitCode = Some(0)

\* C24: send is called at most once and POSTs at most once per call; without
\* a webhook nothing is POSTed; however the POST settles (2xx, another status,
\* network error, abort by the 3 s timer), send returns to main without an
\* exception and without a second POST, and main exits normally.
C24_SendNeverThrowsNeverRetries ==
    /\ posts <= sendCalls /\ sendCalls <= 1
    /\ ~webhook => (posts = 0 /\ delivery = "none")
    /\ delivery # "none" => (posts = 1 /\ pc = "exited")
    /\ sendCalls = 1 => ~threw
    /\ (sendCalls = 1 /\ pc = "exited" /\ ~interrupted) => exitCode = Some(ExitCodeOf(FALSE))

\* The POST was aborted by the timer: one POST, nothing thrown.
C24_Witness ==
    /\ pc = "exited" /\ ~interrupted /\ webhook
    /\ delivery = "abort" /\ sendCalls = 1 /\ posts = 1 /\ ~threw

\* ------------------------------------------- further claims on the screen

\* The first "Resets" line after the first "Current session" line, when no
\* "Current week" line comes before it or is that line.
SectionResetLine ==
    IF SessionPositions = {} \/ ResetsAfter(Least(SessionPositions)) = {} THEN 0
    ELSE LET r == Least(ResetsAfter(Least(SessionPositions)))
         IN IF \E j \in Least(SessionPositions)..r : screen[j].week THEN 0 ELSE r

\* The "N% used" lines of the section before its "Resets" line.
PercentsBeforeReset ==
    {i \in 1..Len(screen) : /\ i > Least(SessionPositions) /\ i < SectionResetLine
                            /\ IsSome(screen[i].percent) /\ ~screen[i].session}

\* C25: when several "N% used" lines stand in the section before the reset
\* line (which carries no percentage itself), the returned percentage is that
\* of the first of them.
C25_FirstPercentWins ==
    (/\ qat = "returned"
     /\ SectionResetLine # 0
     /\ screen[SectionResetLine].percent = None
     /\ Cardinality(PercentsBeforeReset) >= 2) =>
        /\ usage # None
        /\ Get(usage).tokenPercentageUsed = Get(screen[Least(PercentsBeforeReset)].percent)

\* The "Current week" lines after the first "Current session" line.
WeeksAfterMarker ==
    IF SessionPositions = {} THEN {}
    ELSE {i \in 1..Len(screen) : i > Least(SessionPositions) /\ screen[i].week}

\* The screen up to, and without, the first "Current week" line that follows
\* the first "Current session" line (the whole screen if there is none).
BeforeWeek ==
    IF WeeksAfterMarker = {} THEN screen ELSE SubSeq(screen, 1, Least(WeeksAfterMarker) - 1)

\* C26: the result is taken from the lines strictly between the first
\* "Current session" line and the next "Current week" line only: it is the
\* result for the screen cut off before that "Current week" line, and each
\* value of a snapshot stands on a line strictly between the two.
C26_NothingFromWeekLineOn ==
    qat = "returned" =>
        /\ usage = ToUsageStats(parseUsageOutput(BeforeWeek))
        /\ usage # None =>
              /\ Get(usage).tokenPercentageUsed # 0 =>
                    \E i \in (Least(SessionPositions) + 1)..Len(BeforeWeek) :
                        screen[i].percent = Some(Get(usage).tokenPercentageUsed)
              /\ Get(usage).resetTime # "" =>
                    \E i \in (Least(SessionPositions) + 1)..Len(BeforeWeek) :
                        IsSome(screen[i].reset) /\ Trim(Get(screen[i].reset)) = Get(usage).resetTime

\* C27: the first "Resets" line of the section sets the reset description to
\* its text from "Resets" to the end of the line, trimmed, and ends the scan:
\* the result is that of the screen cut off after that line, and replacing
\* any later line by any other line leaves the result as it is.
C27_FirstResetEndsScan ==
    (qat = "returned" /\ SectionResetLine # 0) =>
        LET r == SectionResetLine
        IN /\ usage # None
           /\ Get(usage).resetTime = Trim(Get(screen[r].reset))
           /\ usage = ToUsageStats(parseUsageOutput(SubSeq(screen, 1, r)))
           /\ \A j \in (r + 1)..Len(screen) : \A l \in ScreenLines :
                  ToUsageStats(parseUsageOutput([screen EXCEPT ![j] = l])) = usage

\* C27 witness: the reset line, with blanks at its end, is the second line; an
\* "N% used" line and another "Resets" line follow it and are not read.
C27_Witness ==
    /\ qat = "returned" /\ SectionResetLine = 2
    /\ screen = <<SessionLine, ScreenLine(FALSE, FALSE, Some(7), Some("Resets 4pm  ")),
                  PercentLine(23), ResetLine("Resets 2:59pm (America/New_York)")>>
    /\ usage = Some([tokenPercentageUsed |-> 7, resetTime |-> "Resets 4pm"])

\* ------------------------------------------ further claims on the transcript

\* The tool names, and the texts, of the assistant entries among lines, in
\* order.
RECURSIVE ToolsOfAssistants(_)
ToolsOfAssistants(lines) ==
    IF lines = <<>> THEN <<>>
    ELSE (IF Head(lines).kind = "entry" /\ Head(lines).type = "assistant"
          THEN ToolNames(Head(lines).content.parts) ELSE <<>>) \o ToolsOfAssistants(Tail(lines))

RECURSIVE TextsOfAssistants(_)
TextsOfAssistants(lines) ==
    IF lines = <<>> THEN <<>>
    ELSE (IF Head(lines).kind = "entry" /\ Head(lines).type = "assistant"
          THEN PartTexts(Head(lines).content.parts) ELSE <<>>) \o TextsOfAssistants(Tail(lines))

AfterAnchorLines == SubSeq(log, AnchorPos + 1, Len(log))

\* C28: for a log with an anchor, the tools of the Episode are the tool names
\* of the assistant entries after the anchor, in log order with duplicates,
\* and the response is made of the texts of those entries in log order
\* (absent, the empty list, when there are none).
C28_ToolsAndResponseAfterAnchor ==
    (Returned /\ HasAnchor) =>
        /\ result.ep.tools = ToolsOfAssistants(AfterAnchorLines)
        /\ result.ep.response = TextsOfAssistants(AfterAnchorLines)

\* ------------------------------------- claims on concurrent invocations

Snapshots == {ToUsageStats(parseUsageOutput(s)) : s \in CapturedScreens}

\* C29: whatever the interleaving of two invocations on the one session,
\* neither raises: a failed command (a second new-session for a name that is
\* taken, a keystroke for a session that is gone) ends its invocation with
\* absent, and an invocation that has returned has returned absent or the
\* snapshot parsed from what it captured.
C29_RaceNeverRaises ==
    /\ ~qraised /\ qat # "raised"
    /\ ~peer.raised /\ peer.at # "raised"
    /\ qat = "returned" => (usage = None \/ usage = ToUsageStats(parseUsageOutput(screen)))
    /\ peer.at = "returned" => (peer.usage = None \/ peer.usage = ToUsageStats(parseUsageOutput(peer.screen)))
    /\ usage \in Snapshots /\ peer.usage \in Snapshots

\* C29 witness: both invocations found the session absent and both have a
\* new-session in flight for the same name.
C29_Witness ==
    /\ ~session
    /\ qat = "create" /\ qidx = 1 /\ qphase = "await"
    /\ peer.at = "create" /\ peer.idx = 1 /\ peer.phase = "await"

\* The keystrokes of the two invocations interleave: one is in its creation
\* sequence after its new-session, the other is sending the refresh keys.
KeystrokesInterleaved ==
    /\ session
    /\ qat = "create" /\ qidx = 3 /\ qphase = "await"
    /\ peer.at = "refresh" /\ peer.idx = 2 /\ peer.phase = "await"

\* ----------------------------------- claims on the minutes-remaining build

\* The hour of day of a 12-hour time: 12am is 0, 12pm is 12.
HourOfDay == (remaining.hours % 12) + (IF remaining.isPM THEN 12 ELSE 0)

\* Seconds from now to the next time the local clock shows the time of the
\* reset line: today if it has not passed, otherwise tomorrow; a change of the
\* clock in between adds or takes its hour.
SecondsToNextOccurrence ==
    LET t == WallSeconds(HourOfDay, remaining.minutes, 0)
        n == WallSeconds(remaining.now.h, remaining.now.m, remaining.now.s)
    IN (IF t >= n THEN t - n ELSE t - n + 86400) + ClockShift(remaining.change)

\* C30 (as stated): the value is the number of whole minutes from now until
\* the next occurrence of the wall-clock time of the line, and always between
\* 0 and 1439.
C30_MinutesUntilNextWithinDay ==
    remaining.resetMinutes # None =>
        /\ Get(remaining.resetMinutes) = SecondsToNextOccurrence \div 60
        /\ Get(remaining.resetMinutes) \in 0..1439

\* C30 (amended): the value is the number of whole minutes that pass until
\* the next occurrence of that wall-clock time; it is between 0 and 1439 when
\* the local clock is not changed in between, and up to 1499 when it is set
\* back by an hour in between.
C30_MinutesUntilNextOccurrence ==
    remaining.resetMinutes # None =>
        /\ Get(remaining.resetMinutes) = SecondsToNextOccurrence \div 60
        /\ remaining.change = "none" => Get(remaining.resetMinutes) \in 0..1439
        /\ Get(remaining.resetMinutes) \in 0..1499

\* C30 witness: "Resets 12:29am" read at 00:30:00 is tomorrow's 00:29, 1439
\* minutes away.
C30_Witness ==
    /\ remaining.hours = 12 /\ ~remaining.isPM /\ remaining.minutes = 29
    /\ remaining.now = [h |-> 0, m |-> 30, s |-> 0]
    /\ remaining.change = "none"
    /\ remaining.resetMinutes = Some(1439)

\* ------------------------------------------- claims on the ccusage build

\* C31: for integers 0 <= remaining <= total with total > 0 the percentage
\* reported is round(100 * (total - remaining) / total) and lies in 0..100;
\* with remaining = 0 it is 100.
C31_PercentOfBlocks ==
    (/\ ccusage.percent # None
     /\ ccusage.remaining # None /\ ccusage.total # None
     /\ Get(ccusage.total) > 0) =>
        LET r == Get(ccusage.remaining)
            t == Get(ccusage.total)
            pct == Get(ccusage.percent)
        IN /\ 2 * t * pct <= 200 * (t - r) + t
           /\ 200 * (t - r) + t < 2 * t * (pct + 1)
           /\ pct \in 0..100
           /\ r = 0 => pct = 100

\* ------------------------------------ claims on the register-hooks CLI

\* The step is a run of the CLI.
IsRun == cli'.runs = cli.runs + 1

\* The run aborts for one of the three reasons: no .env on register, no
\* settings file, a settings file that is not JSON.
AbortCase ==
    \/ cli'.last = "register" /\ ~cli.env
    \/ cli.settings.kind \in {"missing", "garbage"}

\* C32: a run that changes the settings file has first copied the file as it
\* was to the backup; a run that aborts (no .env on register, no settings
\* file, settings that are not JSON) exits with code 1 and leaves the
\* settings file (and the backup) as they were.
C32_BackupBeforeWriteAbortLeavesFile ==
    [][IsRun =>
        /\ cli'.settings # cli.settings => cli'.backup = cli.settings
        /\ AbortCase => (cli'.exitCode = Some(1) /\ cli'.settings = cli.settings /\ cli'.backup = cli.backup)
        /\ cli'.exitCode = Some(1) => cli'.settings = cli.settings]_vars

\* C32 witness: a register run without .env has aborted with code 1 on a
\* settings file that a run before it had changed and backed up.
C32_Witness ==
    /\ cli.last = "register" /\ ~cli.env /\ cli.exitCode = Some(1)
    /\ cli.runs = 2 /\ cli.settings = cli.prev
    /\ cli.settings # cli.orig /\ cli.backup = cli.orig

\* The keys of the hooks entry that are not the notifier's.
ForeignHooks(f) == f.hooks.kind = "object" /\ f.hooks.foreign

RegisteredBefore == cli.last = "register" /\ cli.exitCode = Some(0)

\* C33: after any runs on settings that are a JSON object, the entries
\* besides hooks and the hook keys of others are as they were at the start;
\* a register run after a register run leaves the settings file as it is;
\* an unregister run after a register run on settings without a hooks entry
\* leaves settings equal in value to those before the register run.
C33_OthersKeptIdempotentReversible ==
    /\ [](cli.orig.kind = "object" =>
             /\ cli.settings.kind = "object"
             /\ cli.settings.other = cli.orig.other
             /\ ForeignHooks(cli.settings) = ForeignHooks(cli.orig))
    /\ [][(IsRun /\ RegisteredBefore /\ cli'.last = "register") =>
             (cli'.exitCode = Some(0) /\ cli'.settings = cli.settings)]_vars
    /\ [][(IsRun /\ RegisteredBefore /\ cli'.last = "unregister" /\ cli.prev.hooks.kind = "absent") =>
             (cli'.exitCode = Some(0) /\ ParseSettings(cli'.settings) = ParseSettings(cli.prev))]_vars

\* C33 witness: settings with other entries and no hooks entry, laid out
\* compactly, were registered and unregistered: the value is the original
\* one, the text is not (it was rewritten), the backup holds the registered
\* settings.
C33_Witness ==
    /\ cli.runs = 2 /\ cli.last = "unregister" /\ cli.exitCode = Some(0)
    /\ cli.orig = SettingsFile("object", "compact", "model", HooksAbsent)
    /\ ParseSettings(cli.settings) = ParseSettings(cli.orig)
    /\ cli.settings # cli.orig
    /\ cli.backup.hooks = HooksObject("ours", "ours", FALSE)

\* ---------------------------------------------------------------- C34

ErrorAndNotSuccess ==
    /\ hookData.error = Some("boom")
    /\ hookData.status \in {None, Some("failed")}

\* C35: the message of the hook that takes its data from the payload is
\* "Task Failed", red, with an error field and no status field, exactly when
\* the payload has a non-empty error and its status is not "success"; in every
\* other case (status "success" with an error, a non-success status with no
\* or an empty error) it is "Task Completed", green, with the status field
\* "Success" and no error field.
C35_FailedIffErrorAndNotSuccess ==
    (variant = "direct" /\ message # None) =>
        /\ ErrorAndNotSuccess <=> Get(message).title = "Task Failed"
        /\ ErrorAndNotSuccess =>
              /\ Get(message).color = "0xFF0000"
              /\ HasField("Error", TextValue("boom"))
              /\ ~HasFieldNamed("Status")
        /\ ~ErrorAndNotSuccess =>
              /\ Get(message).title = "Task Completed"
              /\ Get(message).color = "0x00FF00"
              /\ HasField("Status", TextValue("Success"))
              /\ ~HasFieldNamed("Error")

\* C35 witness: the payload {"status": "success", "error": "boom"} was
\* reported as "Task Completed".
C35_Witness ==
    /\ variant = "direct"
    /\ message # None
    /\ hookData = input
    /\ hookData.status = Some("success")
    /\ hookData.error = Some("boom")
    /\ Get(message).title = "Task Completed"
    /\ HasField("Status", TextValue("Success"))

\* ---------------------------------------------------------------- C36

\* The duration the hook renders: reconstructed from the transcript by the
\* hook that reads it, supplied by the payload otherwise.
RenderedDuration == IF variant = "transcript" THEN result.ep.duration ELSE hookData.duration

\* C36: in the message of a task-completed hook a duration of exactly 0 ms,
\* reconstructed (the last entry after the anchor has the anchor's timestamp)
\* or supplied, is rendered as "Unknown", as an absent duration is; every
\* duration greater than 0 is rendered as seconds with one decimal (2500 ms as
\* 2.5s, 1 ms as 0.0s).
C36_ZeroDurationUnknown ==
    (variant \in TaskVariants /\ message # None) =>
        /\ RenderedDuration \in {None, Some(0)} => HasField("Duration", TextValue("Unknown"))
        /\ (RenderedDuration # None /\ Get(RenderedDuration) > 0) =>
              /\ FieldValue("Duration").text = "s"
              /\ ~HasField("Duration", TextValue("Unknown"))
        /\ RenderedDuration = Some(2500) => HasField("Duration", SecondsValue(25))
        /\ RenderedDuration = Some(1) => HasField("Duration", SecondsValue(0))

\* C36 witness: the transcript's anchor and its last entry have the same
\* timestamp, the reconstructed duration is 0 and the message says "Unknown".
C36_Witness ==
    /\ variant = "transcript"
    /\ message # None
    /\ parsed /\ ~result.failed
    /\ result.ep.tools = <<"Read">>
    /\ result.ep.duration = Some(0)
    /\ HasField("Duration", TextValue("Unknown"))

\* ---------------------------------------------------------------- C37

\* The promise of readStdin is settled and a further piece of the payload
\* arrives.
LateChunk == resolved # None /\ received' = received + 1

\* C37: readStdin settles exactly once (a settled value never changes, and it
\* is settled exactly when the stream has ended or the timer has fired), with
\* the data received when the first of the two happens; the timer stays armed
\* while pieces arrive; a piece that arrives after the promise settled changes
\* neither the settled value nor the payload the hook has parsed, and the hook
\* parses the settled value: with the timer first and nothing received, {} even
\* when the whole payload has arrived since.
C37_SettlesOnceLateChunksDropped ==
    /\ []((resolved # None) <=> (stdinEnded \/ timerFired))
    /\ []((pc # "exited" /\ ~timerFired) => ENABLED StdinTimer)
    /\ []((pc \notin {"stdin", "exited"} /\ ~threw) => hookData = ParseInput(Get(resolved)).value)
    /\ []((pc # "stdin" /\ resolved = Some(EmptyData)) => hookData = EmptyObject)
    /\ [][resolved # None => resolved' = resolved]_vars
    /\ [][(resolved = None /\ resolved' # None) =>
              /\ received' = received
              /\ resolved' = Some(DataAfter(input, nchunks, received))
              /\ stdinEnded' # stdinEnded \/ timerFired' # timerFired]_vars
    /\ [][LateChunk => (resolved' = resolved /\ hookData' = hookData /\ pc' = pc)]_vars

\* C37 witness: the timer fired before anything had arrived, the hook went on
\* with {} and built its message, and the whole payload (with a prompt) has
\* arrived since.
C37_Witness ==
    /\ timerFired
    /\ resolved = Some(EmptyData)
    /\ input.kind = "object" /\ input.prompt # None
    /\ received = nchunks /\ nchunks = MaxChunks
    /\ hookData = EmptyObject
    /\ message # None

====
